---- MODULE Spec2Model ----
(***************************************************************************)
(* connxray: decorators around net.Listener and net.Conn that run optional *)
(* functions around every method of the wrapped object.                    *)
(*                                                                         *)
(* The repository holds two revisions of the package:                      *)
(*   rev = "callback"  one void callback per method, run after the         *)
(*                     wrapped call (listener.go, conn.go lines 1-198);    *)
(*   rev = "hook"      a 'before' hook that can veto the call and an       *)
(*                     'after' hook that observes it (conn.go lines        *)
(*                     200-448, listener_test.go).                         *)
(* A program links one revision, so a behaviour fixes rev at the start.    *)
(*                                                                         *)
(* One action is one whole method call.  The calls a method makes, in the  *)
(* order it makes them, are recorded in `events`; what it hands back to    *)
(* its caller is recorded in `ret`.                                        *)
(***************************************************************************)
EXTENDS Integers, Sequences, FiniteSets, TLC

\* -------------------------------------------------------------- bounds
\* Objects the caller may set up: Accept calls that create a decorator plus
\* assignments to hook (or callback) fields.
MaxSetup == 2
\* Length of the buffers handed to Read, Write, ReadFrom and WriteTo.
MaxLen == 1

\* -------------------------------------------------------------- values
\* A function-valued field that was never assigned.
NoHook == "unset"
\* The nil error.
NoErr == "nil"
\* The error a failing 'before' hook returns ("chunky bacon" in the tests).
ErrHook == "chunky bacon"
\* An error of the wrapped listener or connection.
ErrBase == "base failure"
ErrNotPacketConn == "this net.Conn is not a net.PacketConn"

\* 'before' hooks a caller can install: one that lets the call through and
\* one that vetoes it.
BeforeHooks == {"BOk", "BFail"}
\* 'after' hooks a caller can install: one that records its arguments.
AfterHooks == {"ARec"}
\* Callbacks of the callback revision (two, to tell them apart).
Callbacks == {"cb1", "cb2"}

\* The error a 'before' hook returns.
HookErr(h) == IF h = "BFail" THEN ErrHook ELSE NoErr

NilAddr == "nil"
Addrs == {"a1", "a2"}
\* Deadlines handed to SetDeadline and friends.
Times == {"t1"}
\* Buffers are modelled by their length.
Buffers == {MaxLen}
BaseErrs == {NoErr, ErrBase}

\* A nil net.Conn, and the connections a wrapped listener can hand out:
\* stream-only ones and ones that also implement net.PacketConn.
NilConn == [id |-> 0, packet |-> FALSE]
RawConn(i, p) == [id |-> i, packet |-> p]

\* The zero-valued results of a method together with error e.
ZeroResult(op, e) ==
    IF op \in {"Read", "Write", "WriteTo"} THEN [n |-> 0, err |-> e]
    ELSE IF op = "ReadFrom" THEN [n |-> 0, addr |-> NilAddr, err |-> e]
    ELSE [err |-> e]

NoArg == <<>>
\* The receiver recorded for calls on the listener decorator; connection
\* decorators are numbered from 1 in the order Accept created them.
TheListener == 0

VARIABLES
    rev,      \* which revision of the package is linked
    l,        \* the listener decorator (its function-valued fields)
    conns,    \* the connection decorators Accept created, in order
    setups,   \* decorators created plus field assignments made so far
    call,     \* the latest method call: receiver, method, arguments, and
              \* the hook fields of that method when the call began
    events,   \* what that call invoked, in order
    ret,      \* what that call returned to its caller
    data,     \* the map of the statsTracker of examples/monitored_http.go
    hist,     \* history: what has been called and returned so far
    frames    \* the calls in progress, where calls are followed step by step

vars == <<rev, l, conns, setups, call, events, ret, data, hist, frames>>

\* ------------------------------------------------ hook revision: types
\* type Listener of the hook revision.
NewListener ==
    [BeforeAccept |-> NoHook, AfterAccept |-> NoHook,
     BeforeClose |-> NoHook, AfterClose |-> NoHook,
     AfterAddr |-> NoHook]

\* &Conn{Base: base}: every hook field is the zero value.
NewConn(base) ==
    [Base |-> base,
     BeforeRead |-> NoHook, AfterRead |-> NoHook,
     BeforeReadFrom |-> NoHook, AfterReadFrom |-> NoHook,
     BeforeWrite |-> NoHook, AfterWrite |-> NoHook,
     BeforeWriteTo |-> NoHook, AfterWriteTo |-> NoHook,
     BeforeClose |-> NoHook, AfterClose |-> NoHook,
     AfterLocalAddr |-> NoHook, AfterRemoteAddr |-> NoHook,
     BeforeSetDeadline |-> NoHook, AfterSetDeadline |-> NoHook,
     BeforeSetReadDeadline |-> NoHook, AfterSetReadDeadline |-> NoHook,
     BeforeSetWriteDeadline |-> NoHook, AfterSetWriteDeadline |-> NoHook]

\* Methods with a 'before' and an 'after' hook, and methods with only an
\* 'after' hook.
ConnPairOps == {"Read", "ReadFrom", "Write", "WriteTo", "Close",
                "SetDeadline", "SetReadDeadline", "SetWriteDeadline"}
ConnAfterOps == {"LocalAddr", "RemoteAddr"}
ListenerPairOps == {"Accept", "Close"}
ListenerAfterOps == {"Addr"}

BeforeField(op) == "Before" \o op
AfterField(op) == "After" \o op
ConnHookFields ==
    {BeforeField(op) : op \in ConnPairOps}
        \cup {AfterField(op) : op \in ConnPairOps \cup ConnAfterOps}

\* ------------------------------------------------------ call recording
EvBefore(op, obj, arg, err) ==
    [kind |-> "before", op |-> op, obj |-> obj, arg |-> arg,
     res |-> [err |-> err]]
EvBase(op, obj, arg, res) ==
    [kind |-> "base", op |-> op, obj |-> obj, arg |-> arg, res |-> res]
EvAfter(op, obj, arg, res) ==
    [kind |-> "after", op |-> op, obj |-> obj, arg |-> arg, res |-> res]

\* A method call as its caller sees it: it began with hook fields `before`
\* and `after`, invoked `evs` and returned `r`.
Returns(op, obj, arg, before, after, evs, r) ==
    /\ call' = [op |-> op, obj |-> obj, arg |-> arg,
                before |-> before, after |-> after]
    /\ events' = evs
    /\ ret' = r

NoCall == [op |-> "none", obj |-> TheListener, arg |-> NoArg,
           before |-> NoHook, after |-> NoHook]

\* ------------------------------------------------------- what hooks do
\* A hook is a function the caller supplies; it is handed the decorator and
\* may assign its fields.  Besides the hooks that only return (BOk, BFail,
\* ARec) there are:
\*   BArm     a 'before' hook that installs ARec as the 'after' hook of the
\*            method being called, and returns nil;
\*   BDisarm  a 'before' hook that clears that 'after' hook, and returns nil;
\*   AOnce    an 'after' hook that clears its own field;
\* and the four methods of the statsTracker of examples/monitored_http.go.
DynBefore == {"BArm", "BDisarm"}
DynAfter == {"AOnce"}

\* What hooks can change: the decorators, and the tracker's map.
World == [conns |-> conns, data |-> data]
Becomes(w) == conns' = w.conns /\ data' = w.data

\* newStats(): a connection's counters (the start time is not modelled).
NewStats == [bytesRead |-> 0, bytesWritten |-> 0]

\* Keys of map[net.Conn]*stats: a wrapped connection, or a decorator.
ConnKey(base) == <<"net.Conn", base.id>>
XrayKey(c) == <<"*xray.Conn", c>>

\* m[k] = v and delete(m, k) on a Go map.
MapPut(m, k, v) == [x \in DOMAIN m \cup {k} |-> IF x = k THEN v ELSE m[x]]
MapDelete(m, k) == [x \in DOMAIN m \ {k} |-> m[x]]

\* make(map[net.Conn]*stats)
NoData == <<>>

\* func (s *statsTracker) onAccept(_ *xray.Listener, conn *xray.Conn, err error)
onAccept(c, err, w) ==
    LET hooked == [w EXCEPT !.conns[c].AfterRead = "onRead",
                            !.conns[c].AfterWrite = "onWrite",
                            !.conns[c].AfterClose = "onClose"]
    IN IF err # NoErr
       THEN hooked
       ELSE [hooked EXCEPT
               !.data = MapPut(@, ConnKey(hooked.conns[c].Base), NewStats)]

\* onRead adding the latest byte count in place of the sum.
onReadKeepsLast(c, n, w) ==
    LET k == ConnKey(w.conns[c].Base)
    IN IF k \notin DOMAIN w.data
       THEN w
       ELSE [w EXCEPT !.data[k].bytesRead = n]

\* func (s *statsTracker) onRead(conn *xray.Conn, _ []byte, n int, err error)
onRead(c, n, w) ==
    LET k == ConnKey(w.conns[c].Base)
    IN IF k \notin DOMAIN w.data
       THEN w
       ELSE [w EXCEPT !.data[k].bytesRead = @ + n]

\* func (s *statsTracker) onWrite(conn *xray.Conn, _ []byte, n int, err error)
onWrite(c, n, w) ==
    LET k == ConnKey(w.conns[c].Base)
    IN IF k \notin DOMAIN w.data
       THEN w
       ELSE [w EXCEPT !.data[k].bytesWritten = @ + n]

\* func (s *statsTracker) onClose(conn *xray.Conn, err error): the entry is
\* looked up under conn.Base and deleted under conn.
onClose(c, w) ==
    LET k == ConnKey(w.conns[c].Base)
    IN IF k \notin DOMAIN w.data
       THEN w
       ELSE [w EXCEPT !.data = MapDelete(@, XrayKey(c))]

\* The statsTracker of the callback revision's example (conn.go 494-553):
\* its callbacks are handed the wrapped connection, the key of every entry.
\* func (s *statsTracker) onAccept(_ net.Listener, conn *xray.Conn, err error)
cbOnAccept(netconn, err, m) ==
    IF err # NoErr THEN m ELSE MapPut(m, ConnKey(netconn), NewStats)

\* func (s *statsTracker) onRead(conn net.Conn, _ []byte, n int, err error)
cbOnRead(netconn, n, m) ==
    IF ConnKey(netconn) \notin DOMAIN m
    THEN m
    ELSE [m EXCEPT ![ConnKey(netconn)].bytesRead = @ + n]

\* func (s *statsTracker) onWrite(conn net.Conn, _ []byte, n int, err error)
cbOnWrite(netconn, n, m) ==
    IF ConnKey(netconn) \notin DOMAIN m
    THEN m
    ELSE [m EXCEPT ![ConnKey(netconn)].bytesWritten = @ + n]

\* func (s *statsTracker) onClose(conn net.Conn, err error)
cbOnClose(netconn, m) ==
    IF ConnKey(netconn) \notin DOMAIN m
    THEN m
    ELSE MapDelete(m, ConnKey(netconn))

\* The tracker's map after callback cb of method op was handed netconn and
\* the results r.
CallbackRun(cb, op, netconn, r, m) ==
    IF cb = "onAccept" /\ op = "Accept" THEN cbOnAccept(netconn, r.err, m)
    ELSE IF cb = "onRead" /\ op = "Read" THEN cbOnRead(netconn, r.n, m)
    ELSE IF cb = "onWrite" /\ op = "Write" THEN cbOnWrite(netconn, r.n, m)
    ELSE IF cb = "onClose" /\ op = "Close" THEN cbOnClose(netconn, m)
    ELSE m

\* The world after 'before' hook h of method op ran on decorator c.
BeforeRun(h, c, op, w) ==
    IF h = "BArm" THEN [w EXCEPT !.conns[c][AfterField(op)] = "ARec"]
    ELSE IF h = "BDisarm" THEN [w EXCEPT !.conns[c][AfterField(op)] = NoHook]
    ELSE w

\* The wrapped connection may be a mock one of whose handlers assigns the
\* 'after' hook of its method while the wrapped call runs: such a
\* connection carries fields `handler`, the method, and `during`, what it
\* assigns.
DuringRun(c, op, w) ==
    LET base == w.conns[c].Base
    IN IF "during" \notin DOMAIN base \/ base.handler # op
       THEN w
       ELSE [w EXCEPT !.conns[c][AfterField(op)] =
                          IF base.during = "arm" THEN "ARec" ELSE NoHook]

\* The world after 'after' hook h of method op ran on decorator c with the
\* results r.
AfterRun(h, c, op, r, w) ==
    IF h = "AOnce" THEN [w EXCEPT !.conns[c][AfterField(op)] = NoHook]
    ELSE IF h = "onRead" THEN onRead(c, r.n, w)
    ELSE IF h = "onWrite" THEN onWrite(c, r.n, w)
    ELSE IF h = "onClose" THEN onClose(c, w)
    ELSE w

\* The world after AfterAccept hook h ran on the new decorator c.
AfterAcceptRun(h, c, err, w) ==
    IF h = "onAccept" THEN onAccept(c, err, w) ELSE w

\* --------------------------------------------------- the caller's part
\* The caller assigns the hook fields of one method of the listener
\* decorator (the fields are exported).
SetListenerHooks(op, before, after) ==
    /\ rev = "hook"
    /\ setups < MaxSetup
    /\ l' = IF op \in ListenerPairOps
            THEN [l EXCEPT ![BeforeField(op)] = before,
                           ![AfterField(op)] = after]
            ELSE [l EXCEPT ![AfterField(op)] = after]
    /\ setups' = setups + 1
    /\ UNCHANGED <<rev, conns, call, events, ret, data>>

\* The caller assigns the hook fields of one method of a connection
\* decorator (one that wraps a connection: the decorator a failed Accept
\* returned is discarded).
SetConnHooks(c, op, before, after) ==
    /\ rev = "hook"
    /\ setups < MaxSetup
    /\ c \in DOMAIN conns
    /\ conns[c].Base # NilConn
    /\ conns' = IF op \in ConnPairOps
                THEN [conns EXCEPT ![c][BeforeField(op)] = before,
                                   ![c][AfterField(op)] = after]
                ELSE [conns EXCEPT ![c][AfterField(op)] = after]
    /\ setups' = setups + 1
    /\ UNCHANGED <<rev, l, call, events, ret, data>>

\* ------------------------------------------- hook revision: Listener
\* What the wrapped listener's Accept can return: a connection and no
\* error, or no connection and an error.
BaseAccept(i) ==
    {[conn |-> RawConn(i, p), err |-> NoErr] : p \in BOOLEAN}
        \cup {[conn |-> NilConn, err |-> ErrBase]}

\* Accept handing the listener's close hooks on to the connection it
\* creates (as the callback revision handed on callbacks).
AcceptPassesHooksOn ==
    /\ rev = "hook"
    /\ IF l.BeforeAccept # NoHook /\ HookErr(l.BeforeAccept) # NoErr
       THEN /\ Returns("Accept", TheListener, NoArg,
                       l.BeforeAccept, l.AfterAccept,
                       <<EvBefore("Accept", TheListener, NoArg,
                                  HookErr(l.BeforeAccept))>>,
                       [conn |-> 0, err |-> HookErr(l.BeforeAccept)])
            /\ UNCHANGED <<conns, setups, data>>
       ELSE /\ setups < MaxSetup
            /\ \E b \in BaseAccept(Len(conns) + 1) :
                 LET c == Len(conns) + 1
                     pre == IF l.BeforeAccept # NoHook
                            THEN <<EvBefore("Accept", TheListener, NoArg,
                                            NoErr)>>
                            ELSE <<>>
                     post == IF l.AfterAccept # NoHook
                             THEN <<EvAfter("Accept", TheListener, NoArg,
                                            [conn |-> c, err |-> b.err])>>
                             ELSE <<>>
                 IN /\ conns' = Append(conns,
                                       [NewConn(b.conn) EXCEPT
                                          !.BeforeClose = l.BeforeClose,
                                          !.AfterClose = l.AfterClose])
                    /\ Returns("Accept", TheListener, NoArg,
                               l.BeforeAccept, l.AfterAccept,
                               pre \o <<EvBase("Accept", TheListener, NoArg, b)>>
                                   \o post,
                               [conn |-> c, err |-> b.err])
            /\ setups' = setups + 1
    /\ UNCHANGED <<rev, l, data>>

\* func (l *Listener) Accept() (net.Conn, error)
\* A returned decorator is named by its index in conns; 0 is a nil net.Conn.
Accept ==
    /\ rev = "hook"
    /\ IF l.BeforeAccept # NoHook /\ HookErr(l.BeforeAccept) # NoErr
       THEN /\ Returns("Accept", TheListener, NoArg,
                       l.BeforeAccept, l.AfterAccept,
                       <<EvBefore("Accept", TheListener, NoArg,
                                  HookErr(l.BeforeAccept))>>,
                       [conn |-> 0, err |-> HookErr(l.BeforeAccept)])
            /\ UNCHANGED <<conns, setups, data>>
       ELSE /\ setups < MaxSetup
            /\ \E b \in BaseAccept(Len(conns) + 1) :
                 LET c == Len(conns) + 1
                     pre == IF l.BeforeAccept # NoHook
                            THEN <<EvBefore("Accept", TheListener, NoArg,
                                            NoErr)>>
                            ELSE <<>>
                     post == IF l.AfterAccept # NoHook
                             THEN <<EvAfter("Accept", TheListener, NoArg,
                                            [conn |-> c, err |-> b.err])>>
                             ELSE <<>>
                     made == [World EXCEPT
                                !.conns = Append(@, NewConn(b.conn))]
                 IN /\ Becomes(IF l.AfterAccept # NoHook
                               THEN AfterAcceptRun(l.AfterAccept, c, b.err,
                                                   made)
                               ELSE made)
                    /\ Returns("Accept", TheListener, NoArg,
                               l.BeforeAccept, l.AfterAccept,
                               pre \o <<EvBase("Accept", TheListener, NoArg, b)>>
                                   \o post,
                               [conn |-> c, err |-> b.err])
            /\ setups' = setups + 1
    /\ UNCHANGED <<rev, l>>

\* Close with the 'after' hook deferred before the 'before' hook is
\* consulted: it runs even when the call is vetoed.
CloseAfterOnVeto ==
    /\ rev = "hook"
    /\ LET post(err) == IF l.AfterClose # NoHook
                        THEN <<EvAfter("Close", TheListener, NoArg,
                                       [err |-> err])>>
                        ELSE <<>>
       IN IF l.BeforeClose # NoHook /\ HookErr(l.BeforeClose) # NoErr
          THEN Returns("Close", TheListener, NoArg,
                       l.BeforeClose, l.AfterClose,
                       <<EvBefore("Close", TheListener, NoArg,
                                  HookErr(l.BeforeClose))>>
                           \o post(HookErr(l.BeforeClose)),
                       [err |-> HookErr(l.BeforeClose)])
          ELSE \E err \in BaseErrs :
                 LET pre == IF l.BeforeClose # NoHook
                            THEN <<EvBefore("Close", TheListener, NoArg,
                                            NoErr)>>
                            ELSE <<>>
                 IN Returns("Close", TheListener, NoArg,
                            l.BeforeClose, l.AfterClose,
                            pre \o <<EvBase("Close", TheListener, NoArg,
                                            [err |-> err])>> \o post(err),
                            [err |-> err])
    /\ UNCHANGED <<rev, l, conns, setups, data>>

\* Close with the 'after' hook run before the wrapped listener is closed,
\* so that it cannot see the listener's error.
CloseAfterTooEarly ==
    /\ rev = "hook"
    /\ IF l.BeforeClose # NoHook /\ HookErr(l.BeforeClose) # NoErr
       THEN Returns("Close", TheListener, NoArg, l.BeforeClose, l.AfterClose,
                    <<EvBefore("Close", TheListener, NoArg,
                               HookErr(l.BeforeClose))>>,
                    [err |-> HookErr(l.BeforeClose)])
       ELSE \E err \in BaseErrs :
              LET pre == IF l.BeforeClose # NoHook
                         THEN <<EvBefore("Close", TheListener, NoArg, NoErr)>>
                         ELSE <<>>
                  post == IF l.AfterClose # NoHook
                          THEN <<EvAfter("Close", TheListener, NoArg,
                                         [err |-> NoErr])>>
                          ELSE <<>>
              IN Returns("Close", TheListener, NoArg,
                         l.BeforeClose, l.AfterClose,
                         pre \o post \o <<EvBase("Close", TheListener, NoArg,
                                                 [err |-> err])>>,
                         [err |-> err])
    /\ UNCHANGED <<rev, l, conns, setups, data>>

\* func (l *Listener) Close() error
Close ==
    /\ rev = "hook"
    /\ IF l.BeforeClose # NoHook /\ HookErr(l.BeforeClose) # NoErr
       THEN Returns("Close", TheListener, NoArg, l.BeforeClose, l.AfterClose,
                    <<EvBefore("Close", TheListener, NoArg,
                               HookErr(l.BeforeClose))>>,
                    [err |-> HookErr(l.BeforeClose)])
       ELSE \E err \in BaseErrs :
              LET pre == IF l.BeforeClose # NoHook
                         THEN <<EvBefore("Close", TheListener, NoArg, NoErr)>>
                         ELSE <<>>
                  post == IF l.AfterClose # NoHook
                          THEN <<EvAfter("Close", TheListener, NoArg,
                                         [err |-> err])>>
                          ELSE <<>>
              IN Returns("Close", TheListener, NoArg,
                         l.BeforeClose, l.AfterClose,
                         pre \o <<EvBase("Close", TheListener, NoArg,
                                         [err |-> err])>> \o post,
                         [err |-> err])
    /\ UNCHANGED <<rev, l, conns, setups, data>>

\* func (l *Listener) Addr() net.Addr
Addr ==
    /\ rev = "hook"
    /\ \E addr \in Addrs :
         LET post == IF l.AfterAddr # NoHook
                     THEN <<EvAfter("Addr", TheListener, NoArg,
                                    [addr |-> addr])>>
                     ELSE <<>>
         IN Returns("Addr", TheListener, NoArg, NoHook, l.AfterAddr,
                    <<EvBase("Addr", TheListener, NoArg, [addr |-> addr])>>
                        \o post,
                    [addr |-> addr])
    /\ UNCHANGED <<rev, l, conns, setups, data>>

\* ----------------------------------------------- hook revision: Conn
\* A method of the hook revision's Conn can be called on decorator c.
IsConn(c) == rev = "hook" /\ c \in DOMAIN conns

\* c.Base.M(...) needs a connection to call: on a nil Base the call panics
\* (callers discard the decorator a failed Accept returned).
HasBase(c) == conns[c].Base # NilConn

\* pconn, implements := c.Base.(net.PacketConn)
Implements(c) == conns[c].Base.packet

\* What the wrapped connection's Read / Write can return for a buffer.
BaseIO(b) == {[n |-> n, err |-> err] : n \in 0..b, err \in BaseErrs}

\* What the wrapped connection's Close and Set*Deadline can return, and
\* its LocalAddr and RemoteAddr.
BaseErr == {[err |-> err] : err \in BaseErrs}
BaseAddr == {[addr |-> addr] : addr \in Addrs}

\* What the wrapped connection's ReadFrom can return for a buffer.
BaseReadFrom(b) ==
    {[n |-> n, addr |-> a, err |-> NoErr] : n \in 0..b, a \in Addrs}
        \cup {[n |-> 0, addr |-> NilAddr, err |-> ErrBase]}

\* Read with the 'before' hook's error ignored: the call goes on to the
\* wrapped connection.
ReadIgnoresBefore(c, b) ==
    /\ IsConn(c)
    /\ HasBase(c)
    /\ LET d == conns[c]
           arg == [b |-> b]
       IN \E r \in BaseIO(b) :
            LET pre == IF d.BeforeRead # NoHook
                       THEN <<EvBefore("Read", c, arg,
                                       HookErr(d.BeforeRead))>>
                       ELSE <<>>
                post == IF d.AfterRead # NoHook
                        THEN <<EvAfter("Read", c, arg, r)>>
                        ELSE <<>>
            IN Returns("Read", c, arg, d.BeforeRead, d.AfterRead,
                       pre \o <<EvBase("Read", c, arg, r)>> \o post, r)
    /\ UNCHANGED <<rev, l, conns, setups, data>>

\* Read that fires the 'after' hook that was set when the call began.
ReadSnapshotsAfter(c, b) ==
    /\ IsConn(c)
    /\ LET d == conns[c]
           arg == [b |-> b]
           berr == IF d.BeforeRead # NoHook THEN HookErr(d.BeforeRead) ELSE NoErr
           pre == IF d.BeforeRead # NoHook
                  THEN <<EvBefore("Read", c, arg, berr)>>
                  ELSE <<>>
           \* the 'before' hook has run
           w1 == IF d.BeforeRead # NoHook
                 THEN BeforeRun(d.BeforeRead, c, "Read", World)
                 ELSE World
       IN IF berr # NoErr
          THEN /\ Returns("Read", c, arg, d.BeforeRead, d.AfterRead, pre,
                          [n |-> 0, err |-> berr])
               /\ Becomes(w1)
          ELSE /\ HasBase(c)
               /\ \E r \in BaseIO(b) :
                    \* c.AfterRead as it was when the call began
                    LET w2 == DuringRun(c, "Read", w1)
                        after == d.AfterRead
                        post == IF after # NoHook
                                THEN <<EvAfter("Read", c, arg, r)>>
                                ELSE <<>>
                    IN /\ Returns("Read", c, arg, d.BeforeRead, d.AfterRead,
                                  pre \o <<EvBase("Read", c, arg, r)>> \o post,
                                  r)
                       /\ Becomes(IF after # NoHook
                                  THEN AfterRun(after, c, "Read", r, w2)
                                  ELSE w2)
    /\ UNCHANGED <<rev, l, setups>>

\* func (c *Conn) Read(b []byte) (int, error)
Read(c, b) ==
    /\ IsConn(c)
    /\ LET d == conns[c]
           arg == [b |-> b]
           berr == IF d.BeforeRead # NoHook THEN HookErr(d.BeforeRead) ELSE NoErr
           pre == IF d.BeforeRead # NoHook
                  THEN <<EvBefore("Read", c, arg, berr)>>
                  ELSE <<>>
           \* the 'before' hook has run
           w1 == IF d.BeforeRead # NoHook
                 THEN BeforeRun(d.BeforeRead, c, "Read", World)
                 ELSE World
       IN IF berr # NoErr
          THEN /\ Returns("Read", c, arg, d.BeforeRead, d.AfterRead, pre,
                          [n |-> 0, err |-> berr])
               /\ Becomes(w1)
          ELSE /\ HasBase(c)
               /\ \E r \in BaseIO(b) :
                    \* the wrapped call has returned; c.AfterRead is read now
                    LET w2 == DuringRun(c, "Read", w1)
                        after == w2.conns[c].AfterRead
                        post == IF after # NoHook
                                THEN <<EvAfter("Read", c, arg, r)>>
                                ELSE <<>>
                    IN /\ Returns("Read", c, arg, d.BeforeRead, d.AfterRead,
                                  pre \o <<EvBase("Read", c, arg, r)>> \o post,
                                  r)
                       /\ Becomes(IF after # NoHook
                                  THEN AfterRun(after, c, "Read", r, w2)
                                  ELSE w2)
    /\ UNCHANGED <<rev, l, setups>>

\* ReadFrom that goes on to the wrapped connection although the 'before'
\* hook returned an error.
ReadFromRunsDespiteVeto(c, b) ==
    /\ IsConn(c)
    /\ LET d == conns[c]
           arg == [b |-> b]
           berr == IF d.BeforeReadFrom # NoHook
                   THEN HookErr(d.BeforeReadFrom)
                   ELSE NoErr
           pre == IF d.BeforeReadFrom # NoHook
                  THEN <<EvBefore("ReadFrom", c, arg, berr)>>
                  ELSE <<>>
       IN IF ~Implements(c)
          THEN Returns("ReadFrom", c, arg,
                       d.BeforeReadFrom, d.AfterReadFrom, <<>>,
                       [n |-> 0, addr |-> NilAddr, err |-> ErrNotPacketConn])
          ELSE \E r \in BaseReadFrom(b) :
                 LET post == IF d.AfterReadFrom # NoHook
                             THEN <<EvAfter("ReadFrom", c, arg, r)>>
                             ELSE <<>>
                 IN Returns("ReadFrom", c, arg,
                            d.BeforeReadFrom, d.AfterReadFrom,
                            pre \o <<EvBase("ReadFrom", c, arg, r)>> \o post,
                            r)
    /\ UNCHANGED <<rev, l, conns, setups, data>>

\* func (c *Conn) ReadFrom(b []byte) (n int, addr net.Addr, err error)
ReadFrom(c, b) ==
    /\ IsConn(c)
    /\ LET d == conns[c]
           arg == [b |-> b]
           berr == IF d.BeforeReadFrom # NoHook THEN HookErr(d.BeforeReadFrom) ELSE NoErr
           pre == IF d.BeforeReadFrom # NoHook
                  THEN <<EvBefore("ReadFrom", c, arg, berr)>>
                  ELSE <<>>
           \* the 'before' hook has run
           w1 == IF d.BeforeReadFrom # NoHook
                 THEN BeforeRun(d.BeforeReadFrom, c, "ReadFrom", World)
                 ELSE World
       IN IF ~Implements(c)
          THEN /\ Returns("ReadFrom", c, arg, d.BeforeReadFrom, d.AfterReadFrom, <<>>,
                          [n |-> 0, addr |-> NilAddr, err |-> ErrNotPacketConn])
               /\ UNCHANGED <<conns, data>>
          ELSE IF berr # NoErr
          THEN /\ Returns("ReadFrom", c, arg, d.BeforeReadFrom, d.AfterReadFrom, pre,
                          [n |-> 0, addr |-> NilAddr, err |-> berr])
               /\ Becomes(w1)
          ELSE \E r \in BaseReadFrom(b) :
                    \* the wrapped call has returned; c.AfterReadFrom is read now
                    LET w2 == DuringRun(c, "ReadFrom", w1)
                        after == w2.conns[c].AfterReadFrom
                        post == IF after # NoHook
                                THEN <<EvAfter("ReadFrom", c, arg, r)>>
                                ELSE <<>>
                    IN /\ Returns("ReadFrom", c, arg, d.BeforeReadFrom, d.AfterReadFrom,
                                  pre \o <<EvBase("ReadFrom", c, arg, r)>> \o post,
                                  r)
                       /\ Becomes(IF after # NoHook
                                  THEN AfterRun(after, c, "ReadFrom", r, w2)
                                  ELSE w2)
    /\ UNCHANGED <<rev, l, setups>>

\* Write with the 'after' hook handed the zero results instead of the
\* wrapped connection's.
WriteAfterSeesZero(c, b) ==
    /\ IsConn(c)
    /\ LET d == conns[c]
           arg == [b |-> b]
       IN IF d.BeforeWrite # NoHook /\ HookErr(d.BeforeWrite) # NoErr
          THEN Returns("Write", c, arg, d.BeforeWrite, d.AfterWrite,
                       <<EvBefore("Write", c, arg, HookErr(d.BeforeWrite))>>,
                       [n |-> 0, err |-> HookErr(d.BeforeWrite)])
          ELSE /\ HasBase(c)
               /\ \E r \in BaseIO(b) :
                    LET pre == IF d.BeforeWrite # NoHook
                               THEN <<EvBefore("Write", c, arg, NoErr)>>
                               ELSE <<>>
                        post == IF d.AfterWrite # NoHook
                                THEN <<EvAfter("Write", c, arg,
                                               [n |-> 0, err |-> NoErr])>>
                                ELSE <<>>
                    IN Returns("Write", c, arg, d.BeforeWrite, d.AfterWrite,
                               pre \o <<EvBase("Write", c, arg, r)>> \o post,
                               r)
    /\ UNCHANGED <<rev, l, conns, setups, data>>

\* Write whose byte count is lost once an 'after' hook has run.
WriteResultLostToAfter(c, b) ==
    /\ IsConn(c)
    /\ LET d == conns[c]
           arg == [b |-> b]
           berr == IF d.BeforeWrite # NoHook THEN HookErr(d.BeforeWrite) ELSE NoErr
           pre == IF d.BeforeWrite # NoHook
                  THEN <<EvBefore("Write", c, arg, berr)>>
                  ELSE <<>>
           \* the 'before' hook has run
           w1 == IF d.BeforeWrite # NoHook
                 THEN BeforeRun(d.BeforeWrite, c, "Write", World)
                 ELSE World
       IN IF berr # NoErr
          THEN /\ Returns("Write", c, arg, d.BeforeWrite, d.AfterWrite, pre,
                          [n |-> 0, err |-> berr])
               /\ Becomes(w1)
          ELSE /\ HasBase(c)
               /\ \E r \in BaseIO(b) :
                    \* the wrapped call has returned; c.AfterWrite is read now
                    LET w2 == DuringRun(c, "Write", w1)
                        after == w2.conns[c].AfterWrite
                        post == IF after # NoHook
                                THEN <<EvAfter("Write", c, arg, r)>>
                                ELSE <<>>
                    IN /\ Returns("Write", c, arg, d.BeforeWrite, d.AfterWrite,
                                  pre \o <<EvBase("Write", c, arg, r)>> \o post,
                                  IF after # NoHook
                                  THEN [n |-> 0, err |-> r.err]
                                  ELSE r)
                       /\ Becomes(IF after # NoHook
                                  THEN AfterRun(after, c, "Write", r, w2)
                                  ELSE w2)
    /\ UNCHANGED <<rev, l, setups>>

\* func (c *Conn) Write(b []byte) (int, error)
Write(c, b) ==
    /\ IsConn(c)
    /\ LET d == conns[c]
           arg == [b |-> b]
           berr == IF d.BeforeWrite # NoHook THEN HookErr(d.BeforeWrite) ELSE NoErr
           pre == IF d.BeforeWrite # NoHook
                  THEN <<EvBefore("Write", c, arg, berr)>>
                  ELSE <<>>
           \* the 'before' hook has run
           w1 == IF d.BeforeWrite # NoHook
                 THEN BeforeRun(d.BeforeWrite, c, "Write", World)
                 ELSE World
       IN IF berr # NoErr
          THEN /\ Returns("Write", c, arg, d.BeforeWrite, d.AfterWrite, pre,
                          [n |-> 0, err |-> berr])
               /\ Becomes(w1)
          ELSE /\ HasBase(c)
               /\ \E r \in BaseIO(b) :
                    \* the wrapped call has returned; c.AfterWrite is read now
                    LET w2 == DuringRun(c, "Write", w1)
                        after == w2.conns[c].AfterWrite
                        post == IF after # NoHook
                                THEN <<EvAfter("Write", c, arg, r)>>
                                ELSE <<>>
                    IN /\ Returns("Write", c, arg, d.BeforeWrite, d.AfterWrite,
                                  pre \o <<EvBase("Write", c, arg, r)>> \o post,
                                  r)
                       /\ Becomes(IF after # NoHook
                                  THEN AfterRun(after, c, "Write", r, w2)
                                  ELSE w2)
    /\ UNCHANGED <<rev, l, setups>>

\* WriteTo consulting BeforeWriteTo before it looks at the wrapped
\* connection's capability.
WriteToBeforeFirst(c, b, addr) ==
    /\ IsConn(c)
    /\ LET d == conns[c]
           arg == [b |-> b, addr |-> addr]
           berr == IF d.BeforeWriteTo # NoHook
                   THEN HookErr(d.BeforeWriteTo)
                   ELSE NoErr
           pre == IF d.BeforeWriteTo # NoHook
                  THEN <<EvBefore("WriteTo", c, arg, berr)>>
                  ELSE <<>>
       IN IF berr # NoErr
          THEN Returns("WriteTo", c, arg,
                       d.BeforeWriteTo, d.AfterWriteTo, pre,
                       [n |-> 0, err |-> berr])
          ELSE IF ~Implements(c)
          THEN Returns("WriteTo", c, arg,
                       d.BeforeWriteTo, d.AfterWriteTo, pre,
                       [n |-> 0, err |-> ErrNotPacketConn])
          ELSE \E r \in BaseIO(b) :
                 LET post == IF d.AfterWriteTo # NoHook
                             THEN <<EvAfter("WriteTo", c, arg, r)>>
                             ELSE <<>>
                 IN Returns("WriteTo", c, arg,
                            d.BeforeWriteTo, d.AfterWriteTo,
                            pre \o <<EvBase("WriteTo", c, arg, r)>> \o post,
                            r)
    /\ UNCHANGED <<rev, l, conns, setups, data>>

\* func (c *Conn) WriteTo(b []byte, addr net.Addr) (n int, err error)
WriteTo(c, b, addr) ==
    /\ IsConn(c)
    /\ LET d == conns[c]
           arg == [b |-> b, addr |-> addr]
           berr == IF d.BeforeWriteTo # NoHook THEN HookErr(d.BeforeWriteTo) ELSE NoErr
           pre == IF d.BeforeWriteTo # NoHook
                  THEN <<EvBefore("WriteTo", c, arg, berr)>>
                  ELSE <<>>
           \* the 'before' hook has run
           w1 == IF d.BeforeWriteTo # NoHook
                 THEN BeforeRun(d.BeforeWriteTo, c, "WriteTo", World)
                 ELSE World
       IN IF ~Implements(c)
          THEN /\ Returns("WriteTo", c, arg, d.BeforeWriteTo, d.AfterWriteTo, <<>>,
                          [n |-> 0, err |-> ErrNotPacketConn])
               /\ UNCHANGED <<conns, data>>
          ELSE IF berr # NoErr
          THEN /\ Returns("WriteTo", c, arg, d.BeforeWriteTo, d.AfterWriteTo, pre,
                          [n |-> 0, err |-> berr])
               /\ Becomes(w1)
          ELSE \E r \in BaseIO(b) :
                    \* the wrapped call has returned; c.AfterWriteTo is read now
                    LET w2 == DuringRun(c, "WriteTo", w1)
                        after == w2.conns[c].AfterWriteTo
                        post == IF after # NoHook
                                THEN <<EvAfter("WriteTo", c, arg, r)>>
                                ELSE <<>>
                    IN /\ Returns("WriteTo", c, arg, d.BeforeWriteTo, d.AfterWriteTo,
                                  pre \o <<EvBase("WriteTo", c, arg, r)>> \o post,
                                  r)
                       /\ Becomes(IF after # NoHook
                                  THEN AfterRun(after, c, "WriteTo", r, w2)
                                  ELSE w2)
    /\ UNCHANGED <<rev, l, setups>>

\* Close that leaves the decorator without hooks once the wrapped
\* connection has been closed.
ConnCloseDropsHooks(c) ==
    /\ IsConn(c)
    /\ LET d == conns[c]
           arg == NoArg
           berr == IF d.BeforeClose # NoHook THEN HookErr(d.BeforeClose) ELSE NoErr
           pre == IF d.BeforeClose # NoHook
                  THEN <<EvBefore("Close", c, arg, berr)>>
                  ELSE <<>>
           \* the 'before' hook has run
           w1 == IF d.BeforeClose # NoHook
                 THEN BeforeRun(d.BeforeClose, c, "Close", World)
                 ELSE World
       IN IF berr # NoErr
          THEN /\ Returns("Close", c, arg, d.BeforeClose, d.AfterClose, pre,
                          [err |-> berr])
               /\ Becomes(w1)
          ELSE /\ HasBase(c)
               /\ \E r \in BaseErr :
                    \* the wrapped call has returned; c.AfterClose is read now
                    LET w2 == DuringRun(c, "Close", w1)
                        after == w2.conns[c].AfterClose
                        post == IF after # NoHook
                                THEN <<EvAfter("Close", c, arg, r)>>
                                ELSE <<>>
                    IN /\ Returns("Close", c, arg, d.BeforeClose, d.AfterClose,
                                  pre \o <<EvBase("Close", c, arg, r)>> \o post,
                                  r)
                       /\ Becomes([w2 EXCEPT
                                    !.conns[c] = NewConn(d.Base)])
    /\ UNCHANGED <<rev, l, setups>>

\* Close that does nothing on a decorator that has been closed before.
ConnCloseOnce(c) ==
    /\ IsConn(c)
    /\ LET d == conns[c]
           arg == NoArg
           berr == IF d.BeforeClose # NoHook THEN HookErr(d.BeforeClose) ELSE NoErr
           pre == IF d.BeforeClose # NoHook
                  THEN <<EvBefore("Close", c, arg, berr)>>
                  ELSE <<>>
           \* the 'before' hook has run
           w1 == IF d.BeforeClose # NoHook
                 THEN BeforeRun(d.BeforeClose, c, "Close", World)
                 ELSE World
       IN IF hist.closes[c] > 0
          THEN /\ Returns("Close", c, arg, d.BeforeClose, d.AfterClose, <<>>,
                          [err |-> NoErr])
               /\ UNCHANGED <<conns, data>>
          ELSE IF berr # NoErr
          THEN /\ Returns("Close", c, arg, d.BeforeClose, d.AfterClose, pre,
                          [err |-> berr])
               /\ Becomes(w1)
          ELSE /\ HasBase(c)
               /\ \E r \in BaseErr :
                    \* the wrapped call has returned; c.AfterClose is read now
                    LET w2 == DuringRun(c, "Close", w1)
                        after == w2.conns[c].AfterClose
                        post == IF after # NoHook
                                THEN <<EvAfter("Close", c, arg, r)>>
                                ELSE <<>>
                    IN /\ Returns("Close", c, arg, d.BeforeClose, d.AfterClose,
                                  pre \o <<EvBase("Close", c, arg, r)>> \o post,
                                  r)
                       /\ Becomes(IF after # NoHook
                                  THEN AfterRun(after, c, "Close", r, w2)
                                  ELSE w2)
    /\ UNCHANGED <<rev, l, setups>>

\* func (c *Conn) Close() error
ConnClose(c) ==
    /\ IsConn(c)
    /\ LET d == conns[c]
           arg == NoArg
           berr == IF d.BeforeClose # NoHook THEN HookErr(d.BeforeClose) ELSE NoErr
           pre == IF d.BeforeClose # NoHook
                  THEN <<EvBefore("Close", c, arg, berr)>>
                  ELSE <<>>
           \* the 'before' hook has run
           w1 == IF d.BeforeClose # NoHook
                 THEN BeforeRun(d.BeforeClose, c, "Close", World)
                 ELSE World
       IN IF berr # NoErr
          THEN /\ Returns("Close", c, arg, d.BeforeClose, d.AfterClose, pre,
                          [err |-> berr])
               /\ Becomes(w1)
          ELSE /\ HasBase(c)
               /\ \E r \in BaseErr :
                    \* the wrapped call has returned; c.AfterClose is read now
                    LET w2 == DuringRun(c, "Close", w1)
                        after == w2.conns[c].AfterClose
                        post == IF after # NoHook
                                THEN <<EvAfter("Close", c, arg, r)>>
                                ELSE <<>>
                    IN /\ Returns("Close", c, arg, d.BeforeClose, d.AfterClose,
                                  pre \o <<EvBase("Close", c, arg, r)>> \o post,
                                  r)
                       /\ Becomes(IF after # NoHook
                                  THEN AfterRun(after, c, "Close", r, w2)
                                  ELSE w2)
    /\ UNCHANGED <<rev, l, setups>>

\* func (c *Conn) LocalAddr() net.Addr
LocalAddr(c) ==
    /\ IsConn(c)
    /\ HasBase(c)
    /\ \E r \in BaseAddr :
         \* the wrapped call has returned; c.AfterLocalAddr is read now
         LET w2 == DuringRun(c, "LocalAddr", World)
             after == w2.conns[c].AfterLocalAddr
             post == IF after # NoHook
                     THEN <<EvAfter("LocalAddr", c, NoArg, r)>>
                     ELSE <<>>
         IN /\ Returns("LocalAddr", c, NoArg, NoHook, conns[c].AfterLocalAddr,
                       <<EvBase("LocalAddr", c, NoArg, r)>> \o post,
                       r)
            /\ Becomes(IF after # NoHook
                       THEN AfterRun(after, c, "LocalAddr", r, w2)
                       ELSE w2)
    /\ UNCHANGED <<rev, l, setups>>

\* RemoteAddr with the 'after' hook started before the address is known.
RemoteAddrHookBlind(c) ==
    /\ IsConn(c)
    /\ HasBase(c)
    /\ \E addr \in Addrs :
         LET d == conns[c]
             post == IF d.AfterRemoteAddr # NoHook
                     THEN <<EvAfter("RemoteAddr", c, NoArg,
                                    [addr |-> NilAddr])>>
                     ELSE <<>>
         IN Returns("RemoteAddr", c, NoArg, NoHook, d.AfterRemoteAddr,
                    <<EvBase("RemoteAddr", c, NoArg, [addr |-> addr])>>
                        \o post,
                    [addr |-> addr])
    /\ UNCHANGED <<rev, l, conns, setups, data>>

\* func (c *Conn) RemoteAddr() net.Addr
RemoteAddr(c) ==
    /\ IsConn(c)
    /\ HasBase(c)
    /\ \E r \in BaseAddr :
         \* the wrapped call has returned; c.AfterRemoteAddr is read now
         LET w2 == DuringRun(c, "RemoteAddr", World)
             after == w2.conns[c].AfterRemoteAddr
             post == IF after # NoHook
                     THEN <<EvAfter("RemoteAddr", c, NoArg, r)>>
                     ELSE <<>>
         IN /\ Returns("RemoteAddr", c, NoArg, NoHook, conns[c].AfterRemoteAddr,
                       <<EvBase("RemoteAddr", c, NoArg, r)>> \o post,
                       r)
            /\ Becomes(IF after # NoHook
                       THEN AfterRun(after, c, "RemoteAddr", r, w2)
                       ELSE w2)
    /\ UNCHANGED <<rev, l, setups>>

\* SetDeadline that tells the caller all went well whatever the wrapped
\* connection reported.
SetDeadlineSwallowsError(c, t) ==
    /\ IsConn(c)
    /\ LET d == conns[c]
           arg == [t |-> t]
       IN IF d.BeforeSetDeadline # NoHook
             /\ HookErr(d.BeforeSetDeadline) # NoErr
          THEN Returns("SetDeadline", c, arg,
                       d.BeforeSetDeadline, d.AfterSetDeadline,
                       <<EvBefore("SetDeadline", c, arg,
                                  HookErr(d.BeforeSetDeadline))>>,
                       [err |-> HookErr(d.BeforeSetDeadline)])
          ELSE /\ HasBase(c)
               /\ \E err \in BaseErrs :
                    LET pre == IF d.BeforeSetDeadline # NoHook
                               THEN <<EvBefore("SetDeadline", c, arg, NoErr)>>
                               ELSE <<>>
                        post == IF d.AfterSetDeadline # NoHook
                                THEN <<EvAfter("SetDeadline", c, arg,
                                               [err |-> err])>>
                                ELSE <<>>
                    IN Returns("SetDeadline", c, arg,
                               d.BeforeSetDeadline, d.AfterSetDeadline,
                               pre \o <<EvBase("SetDeadline", c, arg,
                                               [err |-> err])>> \o post,
                               [err |-> NoErr])
    /\ UNCHANGED <<rev, l, conns, setups, data>>

\* func (c *Conn) SetDeadline(t time.Time) error
SetDeadline(c, t) ==
    /\ IsConn(c)
    /\ LET d == conns[c]
           arg == [t |-> t]
           berr == IF d.BeforeSetDeadline # NoHook THEN HookErr(d.BeforeSetDeadline) ELSE NoErr
           pre == IF d.BeforeSetDeadline # NoHook
                  THEN <<EvBefore("SetDeadline", c, arg, berr)>>
                  ELSE <<>>
           \* the 'before' hook has run
           w1 == IF d.BeforeSetDeadline # NoHook
                 THEN BeforeRun(d.BeforeSetDeadline, c, "SetDeadline", World)
                 ELSE World
       IN IF berr # NoErr
          THEN /\ Returns("SetDeadline", c, arg, d.BeforeSetDeadline, d.AfterSetDeadline, pre,
                          [err |-> berr])
               /\ Becomes(w1)
          ELSE /\ HasBase(c)
               /\ \E r \in BaseErr :
                    \* the wrapped call has returned; c.AfterSetDeadline is read now
                    LET w2 == DuringRun(c, "SetDeadline", w1)
                        after == w2.conns[c].AfterSetDeadline
                        post == IF after # NoHook
                                THEN <<EvAfter("SetDeadline", c, arg, r)>>
                                ELSE <<>>
                    IN /\ Returns("SetDeadline", c, arg, d.BeforeSetDeadline, d.AfterSetDeadline,
                                  pre \o <<EvBase("SetDeadline", c, arg, r)>> \o post,
                                  r)
                       /\ Becomes(IF after # NoHook
                                  THEN AfterRun(after, c, "SetDeadline", r, w2)
                                  ELSE w2)
    /\ UNCHANGED <<rev, l, setups>>

\* SetReadDeadline that calls the wrapped connection's SetDeadline, which
\* moves the write deadline too.
SetReadDeadlineSetsBoth(c, t) ==
    /\ IsConn(c)
    /\ LET d == conns[c]
           arg == [t |-> t]
       IN IF d.BeforeSetReadDeadline # NoHook
             /\ HookErr(d.BeforeSetReadDeadline) # NoErr
          THEN Returns("SetReadDeadline", c, arg,
                       d.BeforeSetReadDeadline, d.AfterSetReadDeadline,
                       <<EvBefore("SetReadDeadline", c, arg,
                                  HookErr(d.BeforeSetReadDeadline))>>,
                       [err |-> HookErr(d.BeforeSetReadDeadline)])
          ELSE /\ HasBase(c)
               /\ \E err \in BaseErrs :
                    LET pre == IF d.BeforeSetReadDeadline # NoHook
                               THEN <<EvBefore("SetReadDeadline", c, arg,
                                               NoErr)>>
                               ELSE <<>>
                        post == IF d.AfterSetReadDeadline # NoHook
                                THEN <<EvAfter("SetReadDeadline", c, arg,
                                               [err |-> err])>>
                                ELSE <<>>
                    IN Returns("SetReadDeadline", c, arg,
                               d.BeforeSetReadDeadline, d.AfterSetReadDeadline,
                               pre \o <<EvBase("SetDeadline", c, arg,
                                               [err |-> err])>> \o post,
                               [err |-> err])
    /\ UNCHANGED <<rev, l, conns, setups, data>>

\* func (c *Conn) SetReadDeadline(t time.Time) error
SetReadDeadline(c, t) ==
    /\ IsConn(c)
    /\ LET d == conns[c]
           arg == [t |-> t]
           berr == IF d.BeforeSetReadDeadline # NoHook THEN HookErr(d.BeforeSetReadDeadline) ELSE NoErr
           pre == IF d.BeforeSetReadDeadline # NoHook
                  THEN <<EvBefore("SetReadDeadline", c, arg, berr)>>
                  ELSE <<>>
           \* the 'before' hook has run
           w1 == IF d.BeforeSetReadDeadline # NoHook
                 THEN BeforeRun(d.BeforeSetReadDeadline, c, "SetReadDeadline", World)
                 ELSE World
       IN IF berr # NoErr
          THEN /\ Returns("SetReadDeadline", c, arg, d.BeforeSetReadDeadline, d.AfterSetReadDeadline, pre,
                          [err |-> berr])
               /\ Becomes(w1)
          ELSE /\ HasBase(c)
               /\ \E r \in BaseErr :
                    \* the wrapped call has returned; c.AfterSetReadDeadline is read now
                    LET w2 == DuringRun(c, "SetReadDeadline", w1)
                        after == w2.conns[c].AfterSetReadDeadline
                        post == IF after # NoHook
                                THEN <<EvAfter("SetReadDeadline", c, arg, r)>>
                                ELSE <<>>
                    IN /\ Returns("SetReadDeadline", c, arg, d.BeforeSetReadDeadline, d.AfterSetReadDeadline,
                                  pre \o <<EvBase("SetReadDeadline", c, arg, r)>> \o post,
                                  r)
                       /\ Becomes(IF after # NoHook
                                  THEN AfterRun(after, c, "SetReadDeadline", r, w2)
                                  ELSE w2)
    /\ UNCHANGED <<rev, l, setups>>

\* func (c *Conn) SetWriteDeadline(t time.Time) error
SetWriteDeadline(c, t) ==
    /\ IsConn(c)
    /\ LET d == conns[c]
           arg == [t |-> t]
           berr == IF d.BeforeSetWriteDeadline # NoHook THEN HookErr(d.BeforeSetWriteDeadline) ELSE NoErr
           pre == IF d.BeforeSetWriteDeadline # NoHook
                  THEN <<EvBefore("SetWriteDeadline", c, arg, berr)>>
                  ELSE <<>>
           \* the 'before' hook has run
           w1 == IF d.BeforeSetWriteDeadline # NoHook
                 THEN BeforeRun(d.BeforeSetWriteDeadline, c, "SetWriteDeadline", World)
                 ELSE World
       IN IF berr # NoErr
          THEN /\ Returns("SetWriteDeadline", c, arg, d.BeforeSetWriteDeadline, d.AfterSetWriteDeadline, pre,
                          [err |-> berr])
               /\ Becomes(w1)
          ELSE /\ HasBase(c)
               /\ \E r \in BaseErr :
                    \* the wrapped call has returned; c.AfterSetWriteDeadline is read now
                    LET w2 == DuringRun(c, "SetWriteDeadline", w1)
                        after == w2.conns[c].AfterSetWriteDeadline
                        post == IF after # NoHook
                                THEN <<EvAfter("SetWriteDeadline", c, arg, r)>>
                                ELSE <<>>
                    IN /\ Returns("SetWriteDeadline", c, arg, d.BeforeSetWriteDeadline, d.AfterSetWriteDeadline,
                                  pre \o <<EvBase("SetWriteDeadline", c, arg, r)>> \o post,
                                  r)
                       /\ Becomes(IF after # NoHook
                                  THEN AfterRun(after, c, "SetWriteDeadline", r, w2)
                                  ELSE w2)
    /\ UNCHANGED <<rev, l, setups>>

\* ------------------------------------------------- callback revision
\* type Listener of the callback revision: its own callbacks and the ones
\* it hands to the connections it accepts.
NewCbListener ==
    [AcceptCallback |-> NoHook, CloseCallback |-> NoHook,
     AddrCallback |-> NoHook,
     ConnReadCallback |-> NoHook, ConnWriteCallback |-> NoHook,
     ConnCloseCallback |-> NoHook, ConnLocalAddrCallback |-> NoHook,
     ConnRemoteAddrCallback |-> NoHook, ConnSetDeadlineCallback |-> NoHook,
     ConnSetReadDeadlineCallback |-> NoHook,
     ConnSetWriteDeadlineCallback |-> NoHook]

\* The callbacks of a connection that the listener carries, by the name of
\* the connection's field.
PassedCallbacks ==
    {"ReadCallback", "WriteCallback", "CloseCallback", "LocalAddrCallback",
     "RemoteAddrCallback", "SetDeadlineCallback", "SetReadDeadlineCallback",
     "SetWriteDeadlineCallback"}
ListenerCallbacks == {"AcceptCallback", "CloseCallback", "AddrCallback"}
ConnField(f) == "Conn" \o f

\* The caller assigns one callback field of the listener.
SetListenerCallback(f, cb) ==
    /\ rev = "callback"
    /\ setups < MaxSetup
    /\ l' = [l EXCEPT ![f] = cb]
    /\ setups' = setups + 1
    /\ UNCHANGED <<rev, conns, call, events, ret, data>>

\* The caller assigns one callback field of a connection.
SetConnCallback(c, f, cb) ==
    /\ rev = "callback"
    /\ setups < MaxSetup
    /\ c \in DOMAIN conns
    /\ conns[c].NetConn # NilConn
    /\ conns' = [conns EXCEPT ![c][f] = cb]
    /\ setups' = setups + 1
    /\ UNCHANGED <<rev, l, call, events, ret, data>>

\* The connection literal with the write deadline callback taken from the
\* read deadline field.
CbConnWrongDeadline(netconn, lsn) ==
    [NetConn |-> netconn,
     ReadCallback |-> lsn.ConnReadCallback,
     ReadFromCallback |-> NoHook,
     WriteCallback |-> lsn.ConnWriteCallback,
     WriteToCallback |-> NoHook,
     CloseCallback |-> lsn.ConnCloseCallback,
     LocalAddrCallback |-> lsn.ConnLocalAddrCallback,
     RemoteAddrCallback |-> lsn.ConnRemoteAddrCallback,
     SetDeadlineCallback |-> lsn.ConnSetDeadlineCallback,
     SetReadDeadlineCallback |-> lsn.ConnSetReadDeadlineCallback,
     SetWriteDeadlineCallback |-> lsn.ConnSetReadDeadlineCallback]

\* &Conn{NetConn: netconn, ReadCallback: l.ConnReadCallback, ...}
CbConn(netconn, lsn) ==
    [NetConn |-> netconn,
     ReadCallback |-> lsn.ConnReadCallback,
     ReadFromCallback |-> NoHook,
     WriteCallback |-> lsn.ConnWriteCallback,
     WriteToCallback |-> NoHook,
     CloseCallback |-> lsn.ConnCloseCallback,
     LocalAddrCallback |-> lsn.ConnLocalAddrCallback,
     RemoteAddrCallback |-> lsn.ConnRemoteAddrCallback,
     SetDeadlineCallback |-> lsn.ConnSetDeadlineCallback,
     SetReadDeadlineCallback |-> lsn.ConnSetReadDeadlineCallback,
     SetWriteDeadlineCallback |-> lsn.ConnSetWriteDeadlineCallback]

\* Accept of the callback revision with the callback skipped when the
\* wrapped Accept failed.
CbAcceptSilentOnError ==
    /\ rev = "callback"
    /\ setups < MaxSetup
    /\ \E b \in BaseAccept(Len(conns) + 1) :
         LET c == Len(conns) + 1
             post == IF l.AcceptCallback # NoHook /\ b.err = NoErr
                     THEN <<EvAfter("Accept", TheListener, NoArg,
                                    [conn |-> c, err |-> b.err])>>
                     ELSE <<>>
         IN /\ conns' = Append(conns, CbConn(b.conn, l))
            /\ Returns("Accept", TheListener, NoArg, NoHook, l.AcceptCallback,
                       <<EvBase("Accept", TheListener, NoArg, b)>> \o post,
                       [conn |-> c, err |-> b.err])
            /\ data' = IF b.err = NoErr
                       THEN CallbackRun(l.AcceptCallback, "Accept", b.conn,
                                        [err |-> b.err], data)
                       ELSE data
    /\ setups' = setups + 1
    /\ UNCHANGED <<rev, l>>

\* func (l *Listener) Accept() (net.Conn, error), callback revision
CbAccept ==
    /\ rev = "callback"
    /\ setups < MaxSetup
    /\ \E b \in BaseAccept(Len(conns) + 1) :
         LET c == Len(conns) + 1
             post == IF l.AcceptCallback # NoHook
                     THEN <<EvAfter("Accept", TheListener, NoArg,
                                    [conn |-> c, err |-> b.err])>>
                     ELSE <<>>
         IN /\ conns' = Append(conns, CbConn(b.conn, l))
            /\ Returns("Accept", TheListener, NoArg, NoHook, l.AcceptCallback,
                       <<EvBase("Accept", TheListener, NoArg, b)>> \o post,
                       [conn |-> c, err |-> b.err])
            /\ data' = CallbackRun(l.AcceptCallback, "Accept", b.conn,
                                   [err |-> b.err], data)
    /\ setups' = setups + 1
    /\ UNCHANGED <<rev, l>>

\* func (l *Listener) Close() error, callback revision
CbClose ==
    /\ rev = "callback"
    /\ \E err \in BaseErrs :
         LET post == IF l.CloseCallback # NoHook
                     THEN <<EvAfter("Close", TheListener, NoArg,
                                    [err |-> err])>>
                     ELSE <<>>
         IN Returns("Close", TheListener, NoArg, NoHook, l.CloseCallback,
                    <<EvBase("Close", TheListener, NoArg, [err |-> err])>>
                        \o post,
                    [err |-> err])
    /\ UNCHANGED <<rev, l, conns, setups, data>>

\* func (l *Listener) Addr() net.Addr, callback revision
CbAddr ==
    /\ rev = "callback"
    /\ \E addr \in Addrs :
         LET post == IF l.AddrCallback # NoHook
                     THEN <<EvAfter("Addr", TheListener, NoArg,
                                    [addr |-> addr])>>
                     ELSE <<>>
         IN Returns("Addr", TheListener, NoArg, NoHook, l.AddrCallback,
                    <<EvBase("Addr", TheListener, NoArg, [addr |-> addr])>>
                        \o post,
                    [addr |-> addr])
    /\ UNCHANGED <<rev, l, conns, setups, data>>

\* A method of the callback revision's Conn can be called on decorator c
\* (every one of them calls c.NetConn first).
IsCbConn(c) ==
    rev = "callback" /\ c \in DOMAIN conns /\ conns[c].NetConn # NilConn

\* The callback revision's Conn calls c.NetConn and hands c.NetConn to the
\* callback: the events of its methods name the wrapped connection.
\* func (c *Conn) LocalAddr() net.Addr, callback revision
CbLocalAddr(c) ==
    /\ IsCbConn(c)
    /\ \E addr \in Addrs :
         LET d == conns[c]
             post == IF d.LocalAddrCallback # NoHook
                     THEN <<EvAfter("LocalAddr", d.NetConn.id, NoArg,
                                    [addr |-> addr])>>
                     ELSE <<>>
         IN Returns("LocalAddr", c, NoArg, NoHook, d.LocalAddrCallback,
                    <<EvBase("LocalAddr", d.NetConn.id, NoArg,
                           [addr |-> addr])>>
                        \o post,
                    [addr |-> addr])
    /\ UNCHANGED <<rev, l, conns, setups, data>>

\* func (c *Conn) RemoteAddr() net.Addr, callback revision
CbRemoteAddr(c) ==
    /\ IsCbConn(c)
    /\ \E addr \in Addrs :
         LET d == conns[c]
             post == IF d.RemoteAddrCallback # NoHook
                     THEN <<EvAfter("RemoteAddr", d.NetConn.id, NoArg,
                                    [addr |-> addr])>>
                     ELSE <<>>
         IN Returns("RemoteAddr", c, NoArg, NoHook, d.RemoteAddrCallback,
                    <<EvBase("RemoteAddr", d.NetConn.id, NoArg,
                           [addr |-> addr])>>
                        \o post,
                    [addr |-> addr])
    /\ UNCHANGED <<rev, l, conns, setups, data>>

\* func (c *Conn) Read(b []byte) (int, error), callback revision
CbRead(c, b) ==
    /\ IsCbConn(c)
    /\ \E r \in BaseIO(b) :
         LET d == conns[c]
             post == IF d.ReadCallback # NoHook
                     THEN <<EvAfter("Read", d.NetConn.id, [b |-> b], r)>>
                     ELSE <<>>
         IN /\ Returns("Read", c, [b |-> b], NoHook, d.ReadCallback,
                       <<EvBase("Read", d.NetConn.id, [b |-> b], r)>> \o post,
                       r)
            /\ data' = CallbackRun(d.ReadCallback, "Read", d.NetConn, r, data)
    /\ UNCHANGED <<rev, l, conns, setups>>

\* func (c *Conn) Write(b []byte) (int, error), callback revision
CbWrite(c, b) ==
    /\ IsCbConn(c)
    /\ \E r \in BaseIO(b) :
         LET d == conns[c]
             post == IF d.WriteCallback # NoHook
                     THEN <<EvAfter("Write", d.NetConn.id, [b |-> b], r)>>
                     ELSE <<>>
         IN /\ Returns("Write", c, [b |-> b], NoHook, d.WriteCallback,
                       <<EvBase("Write", d.NetConn.id, [b |-> b], r)>>
                           \o post,
                       r)
            /\ data' = CallbackRun(d.WriteCallback, "Write", d.NetConn, r,
                                   data)
    /\ UNCHANGED <<rev, l, conns, setups>>

\* func (c *Conn) Close() error, callback revision
CbConnClose(c) ==
    /\ IsCbConn(c)
    /\ \E r \in BaseErr :
         LET d == conns[c]
             post == IF d.CloseCallback # NoHook
                     THEN <<EvAfter("Close", d.NetConn.id, NoArg, r)>>
                     ELSE <<>>
         IN /\ Returns("Close", c, NoArg, NoHook, d.CloseCallback,
                       <<EvBase("Close", d.NetConn.id, NoArg, r)>> \o post,
                       r)
            /\ data' = CallbackRun(d.CloseCallback, "Close", d.NetConn, r,
                                   data)
    /\ UNCHANGED <<rev, l, conns, setups>>

\* ------------------------------------------------------ specification
\* The caller has built a listener decorator around a listener and has
\* assigned none of its function-valued fields yet.
\* Where calls are not followed step by step, and no history is kept.
NoHist == <<>>
NoFrames == <<>>
Idle == UNCHANGED <<hist, frames>>

Init ==
    /\ rev \in {"callback", "hook"}
    /\ l = IF rev = "hook" THEN NewListener ELSE NewCbListener
    /\ conns = <<>>
    /\ setups = 0
    /\ call = NoCall
    /\ events = <<>>
    /\ ret = NoArg
    /\ data = NoData
    /\ hist = NoHist
    /\ frames = NoFrames

Next ==
    \/ \E op \in ListenerPairOps \cup ListenerAfterOps,
          b \in BeforeHooks \cup {NoHook}, a \in AfterHooks \cup {NoHook} :
         SetListenerHooks(op, b, a) /\ Idle
    \/ \E c \in 1..MaxSetup, op \in ConnPairOps \cup ConnAfterOps,
          b \in BeforeHooks \cup {NoHook}, a \in AfterHooks \cup {NoHook} :
         SetConnHooks(c, op, b, a) /\ Idle
    \/ Accept /\ Idle
    \/ Close /\ Idle
    \/ Addr /\ Idle
    \/ \E c \in 1..MaxSetup, b \in Buffers : Read(c, b) /\ Idle
    \/ \E c \in 1..MaxSetup, b \in Buffers : ReadFrom(c, b) /\ Idle
    \/ \E c \in 1..MaxSetup, b \in Buffers : Write(c, b) /\ Idle
    \/ \E c \in 1..MaxSetup, b \in Buffers, a \in Addrs : WriteTo(c, b, a) /\ Idle
    \/ \E c \in 1..MaxSetup : ConnClose(c) /\ Idle
    \/ \E c \in 1..MaxSetup : LocalAddr(c) /\ Idle
    \/ \E c \in 1..MaxSetup : RemoteAddr(c) /\ Idle
    \/ \E c \in 1..MaxSetup, t \in Times : SetDeadline(c, t) /\ Idle
    \/ \E c \in 1..MaxSetup, t \in Times : SetReadDeadline(c, t) /\ Idle
    \/ \E c \in 1..MaxSetup, t \in Times : SetWriteDeadline(c, t) /\ Idle
    \/ \E f \in ListenerCallbacks \cup {ConnField(g) : g \in PassedCallbacks},
          cb \in Callbacks :
         SetListenerCallback(f, cb) /\ Idle
    \/ \E c \in 1..MaxSetup, f \in {"LocalAddrCallback", "RemoteAddrCallback"},
          cb \in Callbacks \cup {NoHook} :
         SetConnCallback(c, f, cb) /\ Idle
    \/ CbAccept /\ Idle
    \/ CbClose /\ Idle
    \/ CbAddr /\ Idle
    \/ \E c \in 1..MaxSetup : CbLocalAddr(c) /\ Idle
    \/ \E c \in 1..MaxSetup : CbRemoteAddr(c) /\ Idle

Spec == Init /\ [][Next]_vars

\* ------------------------------------------- hooks that assign hook fields
\* A second specification: one connection decorator, built with the hooks
\* of one method set, among them hooks that assign hook fields; the wrapped
\* connection may be a mock that assigns that method's 'after' hook while
\* it is called.  The caller calls methods and may clear hooks.
Mocks(op) ==
    {RawConn(1, p) : p \in BOOLEAN}
        \cup {[id |-> 1, packet |-> p, handler |-> op, during |-> m] :
                p \in BOOLEAN, m \in {"arm", "disarm"}}

\* &Conn{Base: base, Before<op>: before, After<op>: after}
HookedConn(base, op, before, after) ==
    IF op \in ConnPairOps
    THEN [NewConn(base) EXCEPT ![BeforeField(op)] = before,
                               ![AfterField(op)] = after]
    ELSE [NewConn(base) EXCEPT ![AfterField(op)] = after]

InitDyn ==
    /\ rev = "hook"
    /\ l = NewListener
    /\ \E op \in ConnPairOps \cup ConnAfterOps :
         \E base \in Mocks(op),
            b \in BeforeHooks \cup DynBefore \cup {NoHook},
            a \in AfterHooks \cup DynAfter \cup {NoHook} :
           conns = <<HookedConn(base, op, b, a)>>
    /\ setups = MaxSetup - 1
    /\ call = NoCall
    /\ events = <<>>
    /\ ret = NoArg
    /\ data = NoData
    /\ hist = NoHist
    /\ frames = NoFrames

NextDyn ==
    \/ \E op \in ConnPairOps \cup ConnAfterOps :
         SetConnHooks(1, op, NoHook, NoHook) /\ Idle
    \/ \E b \in Buffers : Read(1, b) /\ Idle
    \/ \E b \in Buffers : ReadFrom(1, b) /\ Idle
    \/ \E b \in Buffers : Write(1, b) /\ Idle
    \/ \E b \in Buffers, a \in Addrs : WriteTo(1, b, a) /\ Idle
    \/ ConnClose(1) /\ Idle
    \/ LocalAddr(1) /\ Idle
    \/ RemoteAddr(1) /\ Idle
    \/ \E t \in Times : SetDeadline(1, t) /\ Idle
    \/ \E t \in Times : SetReadDeadline(1, t) /\ Idle
    \/ \E t \in Times : SetWriteDeadline(1, t) /\ Idle

SpecDyn == InitDyn /\ [][NextDyn]_vars

\* ------------------------------------------------- the stats tracker
\* A third specification: the program of examples/monitored_http.go.  The
\* listener decorator is built with AfterAccept: tracker.onAccept; the
\* server accepts connections and reads from, writes to and closes them,
\* and may give a connection a 'before' hook for Read.  `hist` keeps, for
\* every decorator, how many Reads returned and the bytes they returned,
\* and how many calls of Accept, Read and Write there have been, which is
\* bounded.
\* (Logging, and the address queries made for it, are left out.)
MaxCalls == 4

InitStats ==
    /\ rev = "hook"
    /\ l = [NewListener EXCEPT !.AfterAccept = "onAccept"]
    /\ conns = <<>>
    /\ setups = 0
    /\ call = NoCall
    /\ events = <<>>
    /\ ret = NoArg
    /\ data = NoData
    /\ hist = [reads |-> <<>>, read |-> <<>>, calls |-> 0]
    /\ frames = NoFrames

NextStats ==
    \/ /\ hist.calls < MaxCalls
       /\ Accept
       /\ hist' = [hist EXCEPT !.reads = Append(@, 0), !.read = Append(@, 0),
                               !.calls = @ + 1]
       /\ UNCHANGED frames
    \/ \E c \in 1..MaxSetup, b \in BeforeHooks :
         /\ c \in DOMAIN conns
         /\ SetConnHooks(c, "Read", b, conns[c].AfterRead)
         /\ Idle
    \/ \E c \in 1..MaxSetup, b \in Buffers :
         /\ hist.calls < MaxCalls
         /\ Read(c, b)
         /\ hist' = [hist EXCEPT !.reads[c] = @ + 1, !.read[c] = @ + ret'.n,
                                 !.calls = @ + 1]
         /\ UNCHANGED frames
    \/ \E c \in 1..MaxSetup, b \in Buffers :
         /\ hist.calls < MaxCalls
         /\ Write(c, b)
         /\ hist' = [hist EXCEPT !.calls = @ + 1]
         /\ UNCHANGED frames
    \/ \E c \in 1..MaxSetup : ConnClose(c) /\ Idle

SpecStats == InitStats /\ [][NextStats]_vars

\* ---------------------------------------------------- calls after Close
\* A fourth specification, with `hist` counting the Close calls made on
\* each decorator.  Hook revision: one connection decorator built with the
\* hooks of one method set.  Callback revision: the listener decorator of
\* listener.go built with its own callbacks set or unset, which accepts
\* connections.
MaxCloses == 2

InitClose ==
    /\ \/ /\ rev = "hook"
          /\ l = NewListener
          /\ \E op \in ConnPairOps \cup ConnAfterOps, p \in BOOLEAN,
                b \in BeforeHooks \cup {NoHook},
                a \in AfterHooks \cup {NoHook} :
               conns = <<HookedConn(RawConn(1, p), op, b, a)>>
          /\ setups = MaxSetup
       \/ /\ rev = "callback"
          /\ \E cb \in Callbacks \cup {NoHook} :
               l = [NewCbListener EXCEPT !.AcceptCallback = cb,
                                         !.CloseCallback = cb,
                                         !.AddrCallback = cb]
          /\ conns = <<>>
          /\ setups = MaxSetup - 1
    /\ call = NoCall
    /\ events = <<>>
    /\ ret = NoArg
    /\ data = NoData
    /\ hist = [closes |-> [o \in 0..MaxSetup |-> 0]]
    /\ frames = NoFrames

\* One more Close call on decorator o.
Closing(o) ==
    /\ hist.closes[o] < MaxCloses
    /\ hist' = [hist EXCEPT !.closes[o] = @ + 1]
    /\ UNCHANGED frames

NextClose ==
    \/ \E b \in Buffers : Read(1, b) /\ Idle
    \/ \E b \in Buffers : ReadFrom(1, b) /\ Idle
    \/ \E b \in Buffers : Write(1, b) /\ Idle
    \/ \E b \in Buffers, a \in Addrs : WriteTo(1, b, a) /\ Idle
    \/ ConnClose(1) /\ Closing(1)
    \/ LocalAddr(1) /\ Idle
    \/ RemoteAddr(1) /\ Idle
    \/ \E t \in Times : SetDeadline(1, t) /\ Idle
    \/ \E t \in Times : SetReadDeadline(1, t) /\ Idle
    \/ \E t \in Times : SetWriteDeadline(1, t) /\ Idle
    \/ CbAccept /\ Idle
    \/ CbClose /\ Closing(TheListener)
    \/ CbAddr /\ Idle
    \/ \E c \in 1..MaxSetup : CbLocalAddr(c) /\ Idle
    \/ \E c \in 1..MaxSetup : CbRemoteAddr(c) /\ Idle

SpecClose == InitClose /\ [][NextClose]_vars

\* ------------------------------------------ Accept from several threads
\* A fifth specification: the callback revision's listener decorator
\* shared by threads, each of which calls Accept once, followed statement
\* by statement, and then works on the decorator it got.  frames[t] holds
\* thread t's position and the local variables of its Accept; `hist` keeps
\* what the wrapped listener handed out, and to which thread.
NThreads == 2
Threads == 1..NThreads

NewFrame == [pc |-> "idle", netconn |-> NilConn, err |-> NoErr, conn |-> 0]

\* netconn, err := l.NetListener.Accept(): the wrapped listener numbers the
\* connections it hands out.
CbAcceptCall(t) ==
    /\ rev = "callback"
    /\ frames[t].pc = "idle"
    /\ \E b \in BaseAccept(hist.handed + 1) :
         frames' = [frames EXCEPT ![t] = [pc |-> "wrap", netconn |-> b.conn,
                                          err |-> b.err, conn |-> 0]]
    /\ UNCHANGED <<rev, l, conns, setups, call, events, ret, data>>

\* The connection literal around the connection the wrapped listener
\* handed out last, to whichever thread.
CbAcceptWrapsLatest(t) ==
    /\ frames[t].pc = "wrap"
    /\ conns' = Append(conns, CbConn(hist.last, l))
    /\ frames' = [frames EXCEPT ![t].pc = "return",
                                ![t].conn = Len(conns) + 1]
    /\ UNCHANGED <<rev, l, setups, call, events, ret, data>>

\* conn := &Conn{NetConn: netconn, ...}
CbAcceptWrap(t) ==
    /\ frames[t].pc = "wrap"
    /\ conns' = Append(conns, CbConn(frames[t].netconn, l))
    /\ frames' = [frames EXCEPT ![t].pc = "return",
                                ![t].conn = Len(conns) + 1]
    /\ UNCHANGED <<rev, l, setups, call, events, ret, data>>

\* if l.AcceptCallback != nil { defer ... }; return conn, err
CbAcceptReturn(t) ==
    /\ frames[t].pc = "return"
    /\ LET f == frames[t]
           post == IF l.AcceptCallback # NoHook
                   THEN <<EvAfter("Accept", TheListener, NoArg,
                                  [conn |-> f.conn, err |-> f.err])>>
                   ELSE <<>>
       IN Returns("Accept", TheListener, NoArg, NoHook, l.AcceptCallback,
                  <<EvBase("Accept", TheListener, NoArg,
                           [conn |-> f.netconn, err |-> f.err])>> \o post,
                  [conn |-> f.conn, err |-> f.err])
    /\ frames' = [frames EXCEPT ![t].pc = "serving"]
    /\ UNCHANGED <<rev, l, conns, setups, data>>

InitConc ==
    /\ rev = "callback"
    /\ l = NewCbListener
    /\ conns = <<>>
    /\ setups = MaxSetup - 1
    /\ call = NoCall
    /\ events = <<>>
    /\ ret = NoArg
    /\ data = NoData
    /\ hist = [handed |-> 0, last |-> NilConn,
               got |-> [t \in Threads |-> NilConn]]
    /\ frames = [t \in Threads |-> NewFrame]

\* The decorator thread t got from Accept and works on.
Own(t) == IF frames[t].pc = "serving" THEN frames[t].conn ELSE 0

NextConc ==
    \/ \E t \in Threads :
         /\ CbAcceptCall(t)
         /\ hist' = [hist EXCEPT
                       !.handed = IF frames'[t].err = NoErr THEN @ + 1 ELSE @,
                       !.last = frames'[t].netconn,
                       !.got[t] = frames'[t].netconn]
    \/ \E t \in Threads : CbAcceptWrap(t) /\ UNCHANGED hist
    \/ \E t \in Threads : CbAcceptReturn(t) /\ UNCHANGED hist
    \/ SetListenerCallback("ConnLocalAddrCallback", "cb1") /\ Idle
    \/ \E t \in Threads, cb \in {"cb2", NoHook} :
         SetConnCallback(Own(t), "LocalAddrCallback", cb) /\ Idle
    \/ \E t \in Threads : CbLocalAddr(Own(t)) /\ Idle

SpecConc == InitConc /\ [][NextConc]_vars

\* ------------------------------------------- a call, statement by statement
\* A sixth specification: one call at a time on a connection decorator
\* built with the hooks of one method set, followed from statement to
\* statement.  `frames` is the frame of the call in progress: where it
\* stands, its method, arguments and local variables, the 'after' hook it
\* has deferred and what it has invoked.  The 'before' hook, the wrapped
\* connection and the 'after' hook are the environment: the call waits in
\* inBefore, inBase and inAfter until they return.
NoFrame == [pc |-> "idle", op |-> "none", arg |-> NoArg, res |-> NoArg,
            deferred |-> NoHook, evs |-> <<>>]

\* The methods followed, with their arguments and what the wrapped
\* connection can return.
LiveOps == {"Read", "Write", "Close", "SetDeadline"}
LiveArgs(op) ==
    IF op \in {"Read", "Write"} THEN {[b |-> b] : b \in Buffers}
    ELSE IF op = "Close" THEN {NoArg}
    ELSE {[t |-> t] : t \in Times}
LiveBase(op, arg) == IF op \in {"Read", "Write"} THEN BaseIO(arg.b) ELSE BaseErr

\* The caller calls c.<op>(arg): `if c.Before<op> != nil` either starts the
\* 'before' hook or goes straight to c.Base.<op>(arg).
CallStart(op, arg) ==
    /\ IsConn(1)
    /\ HasBase(1)
    /\ frames.pc = "idle"
    /\ frames' = [NoFrame EXCEPT
                    !.pc = IF conns[1][BeforeField(op)] # NoHook
                           THEN "inBefore" ELSE "inBase",
                    !.op = op, !.arg = arg]
    /\ UNCHANGED <<rev, l, conns, setups, call, events, ret, data>>

\* The 'before' hook returns its error.
BeforeReturns ==
    /\ frames.pc = "inBefore"
    /\ LET h == conns[1][BeforeField(frames.op)]
       IN frames' = [frames EXCEPT
                       !.pc = "beforeDone",
                       !.res = ZeroResult(frames.op, HookErr(h)),
                       !.evs = Append(@, EvBefore(frames.op, 1, frames.arg,
                                                  HookErr(h)))]
    /\ UNCHANGED <<rev, l, conns, setups, call, events, ret, data>>

\* The wrapped connection's method returns.
BaseReturns ==
    /\ frames.pc = "inBase"
    /\ \E r \in LiveBase(frames.op, frames.arg) :
         frames' = [frames EXCEPT
                      !.pc = "baseDone", !.res = r,
                      !.evs = Append(@, EvBase(frames.op, 1, frames.arg, r))]
    /\ UNCHANGED <<rev, l, conns, setups, call, events, ret, data>>

\* The deferred 'after' hook returns.
AfterReturns ==
    /\ frames.pc = "inAfter"
    /\ frames' = [frames EXCEPT !.pc = "afterDone"]
    /\ UNCHANGED <<rev, l, conns, setups, call, events, ret, data>>

\* The call hands its results to the caller.
LiveReturn ==
    /\ Returns(frames.op, 1, frames.arg,
               conns[1][BeforeField(frames.op)],
               conns[1][AfterField(frames.op)], frames.evs, frames.res)
    /\ frames' = NoFrame

\* The decorator's own statements with the wrapped call made again for as
\* long as it fails (only the last attempt is kept in the record).
CallStepRetries ==
    /\ \/ /\ frames.pc = "beforeDone"
          /\ IF frames.res.err # NoErr
             THEN LiveReturn
             ELSE /\ frames' = [frames EXCEPT !.pc = "inBase"]
                  /\ UNCHANGED <<call, events, ret>>
       \/ /\ frames.pc = "baseDone"
          /\ IF frames.res.err # NoErr
             THEN /\ frames' = [frames EXCEPT
                                  !.pc = "inBase",
                                  !.evs = SubSeq(@, 1, Len(@) - 1)]
                  /\ UNCHANGED <<call, events, ret>>
             ELSE IF conns[1][AfterField(frames.op)] # NoHook
             THEN /\ frames' =
                       [frames EXCEPT
                          !.pc = "inAfter",
                          !.deferred = conns[1][AfterField(frames.op)],
                          !.evs = Append(@, EvAfter(frames.op, 1, frames.arg,
                                                    frames.res))]
                  /\ UNCHANGED <<call, events, ret>>
             ELSE LiveReturn
       \/ /\ frames.pc = "afterDone"
          /\ LiveReturn
    /\ UNCHANGED <<rev, l, conns, setups, data>>

\* The decorator's own statements: after the 'before' hook, `if err != nil
\* { return 0, err }`, else the wrapped call; after the wrapped call, `if
\* c.After<op> != nil { defer ... }; return n, err`, the deferred hook
\* running before the call returns.
CallStep ==
    /\ \/ /\ frames.pc = "beforeDone"
          /\ IF frames.res.err # NoErr
             THEN LiveReturn
             ELSE /\ frames' = [frames EXCEPT !.pc = "inBase"]
                  /\ UNCHANGED <<call, events, ret>>
       \/ /\ frames.pc = "baseDone"
          /\ IF conns[1][AfterField(frames.op)] # NoHook
             THEN /\ frames' =
                       [frames EXCEPT
                          !.pc = "inAfter",
                          !.deferred = conns[1][AfterField(frames.op)],
                          !.evs = Append(@, EvAfter(frames.op, 1, frames.arg,
                                                    frames.res))]
                  /\ UNCHANGED <<call, events, ret>>
             ELSE LiveReturn
       \/ /\ frames.pc = "afterDone"
          /\ LiveReturn
    /\ UNCHANGED <<rev, l, conns, setups, data>>

InitLive ==
    /\ rev = "hook"
    /\ l = NewListener
    /\ \E op \in LiveOps, p \in BOOLEAN,
          b \in BeforeHooks \cup {NoHook}, a \in AfterHooks \cup {NoHook} :
         conns = <<HookedConn(RawConn(1, p), op, b, a)>>
    /\ setups = MaxSetup
    /\ call = NoCall
    /\ events = <<>>
    /\ ret = NoArg
    /\ data = NoData
    /\ hist = NoHist
    /\ frames = NoFrame

NextLive ==
    \/ \E op \in LiveOps : \E arg \in LiveArgs(op) :
         CallStart(op, arg) /\ UNCHANGED hist
    \/ BeforeReturns /\ UNCHANGED hist
    \/ BaseReturns /\ UNCHANGED hist
    \/ AfterReturns /\ UNCHANGED hist
    \/ CallStep /\ UNCHANGED hist

\* The hooks and the wrapped connection return, and the calling thread is
\* scheduled.
SpecLive ==
    /\ InitLive
    /\ [][NextLive]_vars
    /\ WF_vars(BeforeReturns /\ UNCHANGED hist)
    /\ WF_vars(BaseReturns /\ UNCHANGED hist)
    /\ WF_vars(AfterReturns /\ UNCHANGED hist)
    /\ WF_vars(CallStep /\ UNCHANGED hist)

\* -------------------------------------------- the tracker's map entries
\* A sixth specification: the example program of either revision.  main()
\* puts the tracker's onAccept on the listener; in the hook revision
\* onAccept installs onRead, onWrite and onClose on every connection, in
\* the callback revision main() names them on the listener, which hands
\* them on.  The server accepts connections, reads from them, writes to
\* them and closes them.  `hist` keeps which decorators were accepted
\* without error, for which of them the close hook has run, and how many
\* Read and Write calls there have been, which is bounded.
MaxServes == 1

InitTrack ==
    /\ rev \in {"hook", "callback"}
    /\ l = IF rev = "hook"
           THEN [NewListener EXCEPT !.AfterAccept = "onAccept"]
           ELSE [NewCbListener EXCEPT !.AcceptCallback = "onAccept",
                                      !.ConnReadCallback = "onRead",
                                      !.ConnWriteCallback = "onWrite",
                                      !.ConnCloseCallback = "onClose"]
    /\ conns = <<>>
    /\ setups = 0
    /\ call = NoCall
    /\ events = <<>>
    /\ ret = NoArg
    /\ data = NoData
    /\ hist = [accepted |-> {}, closed |-> {}, calls |-> 0]
    /\ frames = NoFrames

\* The history after a step that was a call of Accept.
Accepted ==
    /\ hist' = [hist EXCEPT !.accepted =
                  IF ret'.err = NoErr THEN @ \cup {ret'.conn} ELSE @]
    /\ UNCHANGED frames

\* The history after a step that was a call of Read or Write.
Served ==
    /\ hist.calls < MaxServes
    /\ hist' = [hist EXCEPT !.calls = @ + 1]
    /\ UNCHANGED frames

\* The history after a step that was a call of Close on decorator c.
Closed(c) ==
    /\ hist' = [hist EXCEPT !.closed =
                  IF \E i \in DOMAIN events' : events'[i].kind = "after"
                  THEN @ \cup {c}
                  ELSE @]
    /\ UNCHANGED frames

NextTrack ==
    \/ Accept /\ Accepted
    \/ \E c \in 1..MaxSetup, b \in Buffers : Read(c, b) /\ Served
    \/ \E c \in 1..MaxSetup, b \in Buffers : Write(c, b) /\ Served
    \/ \E c \in 1..MaxSetup : ConnClose(c) /\ Closed(c)
    \/ CbAccept /\ Accepted
    \/ \E c \in 1..MaxSetup, b \in Buffers : CbRead(c, b) /\ Served
    \/ \E c \in 1..MaxSetup, b \in Buffers : CbWrite(c, b) /\ Served
    \/ \E c \in 1..MaxSetup : CbConnClose(c) /\ Closed(c)

SpecTrack == InitTrack /\ [][NextTrack]_vars

\* ------------------------------------------ the tracker, by goroutine
\* A seventh specification: the hook revision's example program as
\* http.Serve runs it.  Goroutine 0 calls Accept in a loop; the accept hook
\* onAccept runs on it, and every connection accepted without error is
\* handed to a goroutine of its own (named by the decorator's index) that
\* reads, writes and at last closes it, the hooks onRead, onWrite and
\* onClose running on that goroutine.  The tracker's methods are followed
\* statement by statement: frames.pc[t] names the statement goroutine t is
\* executing, whose effect takes place in the step that leaves it.
\* frames.dataGuard and frames.guard hold the owners of the tracker's mutex
\* and of the mutexes of the stats records.
Acceptor == TheListener
Goroutines == {Acceptor} \cup (1..MaxSetup)

\* The statements that access the map s.data, and those among them that
\* insert or delete.
MapAccess == {"onAccept:insert", "onRead:lookup", "onWrite:lookup",
              "onClose:lookup", "onClose:delete"}
MapWrite == {"onAccept:insert", "onClose:delete"}

\* Goroutine t is executing an access to the map while another goroutine is
\* executing one too, one of the two inserting or deleting: a data race.
Racing(t) ==
    /\ frames.pc[t] \in MapAccess
    /\ \E u \in Goroutines \ {t} :
         /\ frames.pc[u] \in MapAccess
         /\ frames.pc[t] \in MapWrite \/ frames.pc[u] \in MapWrite

\* Goroutine t is at statement pc and the program has not died.
At(t, pc) == ~frames.fatal /\ frames.pc[t] = pc

\* What a racing map access can do besides taking effect: the runtime
\* detects it and ends the program ("fatal error: concurrent map read and
\* map write", "concurrent map writes").
Dies(t) ==
    /\ Racing(t)
    /\ frames' = [frames EXCEPT !.fatal = TRUE]
    /\ UNCHANGED <<rev, l, conns, setups, call, events, ret, data>>

\* Whether a lookup of key k by goroutine t finds an entry: what the map
\* holds, or anything when the lookup races with an insert or delete.
Finds(t, k) ==
    IF Racing(t) THEN BOOLEAN ELSE {k \in DOMAIN data}

\* Goroutine 0: the wrapped listener's Accept returns and the listener
\* decorator hands the new connection decorator to its AfterAccept hook.
RaceAccept ==
    /\ At(Acceptor, "accept")
    /\ Len(conns) < MaxSetup
    /\ \E b \in BaseAccept(Len(conns) + 1) :
         /\ conns' = Append(conns, NewConn(b.conn))
         /\ frames' = [frames EXCEPT !.pc[Acceptor] = "onAccept:hooks",
                                     !.conn = Len(conns) + 1,
                                     !.err = b.err]
    /\ UNCHANGED <<rev, l, setups, call, events, ret, data>>

\* onAccept, lines 45-51: the three assignments and the error check.
OnAcceptHooks ==
    /\ At(Acceptor, "onAccept:hooks")
    /\ conns' = [conns EXCEPT ![frames.conn].AfterRead = "onRead",
                              ![frames.conn].AfterWrite = "onWrite",
                              ![frames.conn].AfterClose = "onClose"]
    /\ frames' = [frames EXCEPT !.pc[Acceptor] =
                    IF frames.err # NoErr THEN "accept" ELSE "onAccept:lock"]
    /\ UNCHANGED <<rev, l, setups, call, events, ret, data>>

\* s.dataGuard.Lock()
OnAcceptLock ==
    /\ At(Acceptor, "onAccept:lock")
    /\ frames.dataGuard = {}
    /\ frames' = [frames EXCEPT !.pc[Acceptor] = "onAccept:insert",
                                !.dataGuard = {Acceptor}]
    /\ UNCHANGED <<rev, l, conns, setups, call, events, ret, data>>

\* s.data[conn.Base] = newStats()
OnAcceptInsert ==
    /\ At(Acceptor, "onAccept:insert")
    /\ data' = MapPut(data, ConnKey(conns[frames.conn].Base), NewStats)
    /\ frames' = [frames EXCEPT !.pc[Acceptor] = "onAccept:unlock"]
    /\ UNCHANGED <<rev, l, conns, setups, call, events, ret>>

\* defer s.dataGuard.Unlock(); Accept returns and http.Serve starts the
\* connection's goroutine.
OnAcceptUnlock ==
    /\ At(Acceptor, "onAccept:unlock")
    /\ frames' = [frames EXCEPT !.pc[Acceptor] = "accept",
                                !.pc[frames.conn] = "serve",
                                !.dataGuard = @ \ {Acceptor}]
    /\ UNCHANGED <<rev, l, conns, setups, call, events, ret, data>>

\* Goroutine t calls Read or Write on its decorator: the wrapped call
\* returns n bytes and the decorator calls the 'after' hook it finds.
RaceServe(t, op) ==
    /\ At(t, "serve")
    /\ frames.served[t] < MaxServes
    /\ conns[t][AfterField(op)] = "on" \o op
    /\ \E r \in BaseIO(MaxLen) :
         frames' = [frames EXCEPT !.pc[t] = "on" \o op \o ":lookup",
                                  !.n[t] = r.n,
                                  !.served[t] = @ + 1]
    /\ UNCHANGED <<rev, l, conns, setups, call, events, ret, data>>

\* Goroutine t calls Close on its decorator.
RaceClose(t) ==
    /\ At(t, "serve")
    /\ conns[t].AfterClose = "onClose"
    /\ frames' = [frames EXCEPT !.pc[t] = "onClose:lookup"]
    /\ UNCHANGED <<rev, l, conns, setups, call, events, ret, data>>

\* onRead 66-70, onWrite 84-88, onClose 102-106:
\* data, exists := s.data[conn.Base]; if !exists { return }
OnLookup(t, hook) ==
    /\ At(t, hook \o ":lookup")
    /\ \E exists \in Finds(t, ConnKey(conns[t].Base)) :
         frames' = [frames EXCEPT !.pc[t] =
                      IF exists THEN hook \o ":lock"
                      ELSE IF hook = "onClose" THEN "closed"
                      ELSE "serve"]
    /\ UNCHANGED <<rev, l, conns, setups, call, events, ret, data>>

\* data.guard.Lock(), the mutex of the stats record
OnLock(t, hook) ==
    /\ At(t, hook \o ":lock")
    /\ ConnKey(conns[t].Base) \notin frames.guard
    /\ frames' = [frames EXCEPT !.pc[t] =
                      IF hook = "onClose" THEN "onClose:delete"
                      ELSE hook \o ":add",
                                !.guard = @ \cup {ConnKey(conns[t].Base)}]
    /\ UNCHANGED <<rev, l, conns, setups, call, events, ret, data>>

\* data.bytesRead += n, data.bytesWritten += n
OnAdd(t, hook) ==
    /\ At(t, hook \o ":add")
    /\ LET k == ConnKey(conns[t].Base)
           field == IF hook = "onRead" THEN "bytesRead" ELSE "bytesWritten"
       IN data' = IF k \in DOMAIN data
                  THEN [data EXCEPT ![k][field] = @ + frames.n[t]]
                  ELSE data
    /\ frames' = [frames EXCEPT !.pc[t] = hook \o ":unlock"]
    /\ UNCHANGED <<rev, l, conns, setups, call, events, ret>>

\* delete(s.data, conn)
OnCloseDelete(t) ==
    /\ At(t, "onClose:delete")
    /\ data' = MapDelete(data, XrayKey(t))
    /\ frames' = [frames EXCEPT !.pc[t] = "onClose:unlock"]
    /\ UNCHANGED <<rev, l, conns, setups, call, events, ret>>

\* defer data.guard.Unlock(); the hook and the call return.
OnUnlock(t, hook) ==
    /\ At(t, hook \o ":unlock")
    /\ frames' = [frames EXCEPT !.pc[t] =
                      IF hook = "onClose" THEN "closed" ELSE "serve",
                                !.guard = @ \ {ConnKey(conns[t].Base)}]
    /\ UNCHANGED <<rev, l, conns, setups, call, events, ret, data>>

InitRace ==
    /\ rev = "hook"
    /\ l = [NewListener EXCEPT !.AfterAccept = "onAccept"]
    /\ conns = <<>>
    /\ setups = 0
    /\ call = NoCall
    /\ events = <<>>
    /\ ret = NoArg
    /\ data = NoData
    /\ hist = NoHist
    /\ frames = [pc |-> [t \in Goroutines |->
                           IF t = Acceptor THEN "accept" ELSE "unborn"],
                 conn |-> 0, err |-> NoErr,
                 n |-> [t \in Goroutines |-> 0],
                 served |-> [t \in Goroutines |-> 0],
                 dataGuard |-> {}, guard |-> {}, fatal |-> FALSE]

NextRace ==
    \/ RaceAccept /\ UNCHANGED hist
    \/ OnAcceptHooks /\ UNCHANGED hist
    \/ OnAcceptLock /\ UNCHANGED hist
    \/ OnAcceptInsert /\ UNCHANGED hist
    \/ OnAcceptUnlock /\ UNCHANGED hist
    \/ \E t \in 1..MaxSetup, op \in {"Read", "Write"} :
         RaceServe(t, op) /\ UNCHANGED hist
    \/ \E t \in 1..MaxSetup : RaceClose(t) /\ UNCHANGED hist
    \/ \E t \in 1..MaxSetup, hook \in {"onRead", "onWrite", "onClose"} :
         OnLookup(t, hook) /\ UNCHANGED hist
    \/ \E t \in 1..MaxSetup, hook \in {"onRead", "onWrite", "onClose"} :
         OnLock(t, hook) /\ UNCHANGED hist
    \/ \E t \in 1..MaxSetup, hook \in {"onRead", "onWrite"} :
         OnAdd(t, hook) /\ UNCHANGED hist
    \/ \E t \in 1..MaxSetup : OnCloseDelete(t) /\ UNCHANGED hist
    \/ \E t \in 1..MaxSetup, hook \in {"onRead", "onWrite", "onClose"} :
         OnUnlock(t, hook) /\ UNCHANGED hist
    \/ \E t \in Goroutines : Dies(t) /\ UNCHANGED hist

SpecRace == InitRace /\ [][NextRace]_vars

\* --------------------------------------------------------- properties
\* The latest call was a method of a connection decorator of the hook
\* revision, among `ops`.
ConnCall(ops) ==
    rev = "hook" /\ call.obj # TheListener /\ call.op \in ops

\* The latest call was a method of the listener decorator of the hook
\* revision, among `ops`.
ListenerCall(ops) ==
    rev = "hook" /\ call.obj = TheListener /\ call.op \in ops

\* The call began with a 'before' hook set that returned an error.
Vetoed == call.before # NoHook /\ HookErr(call.before) # NoErr

\* How many events of a kind the latest call recorded.
Count(kind) == Cardinality({i \in DOMAIN events : events[i].kind = kind})

\* Connection methods with a hook pair around a stream operation.
StreamPairOps == {"Read", "Write", "Close", "SetDeadline",
                  "SetReadDeadline", "SetWriteDeadline"}

\* C1: when the 'before' hook of Read, Write, Close, SetDeadline,
\* SetReadDeadline or SetWriteDeadline is set and returns an error, the
\* call invokes neither the wrapped connection nor the 'after' hook, and
\* returns exactly that error with zero-valued other results.
C1_BeforeErrorShortCircuitsConn ==
    (ConnCall(StreamPairOps) /\ Vetoed)
        => /\ events = <<EvBefore(call.op, call.obj, call.arg,
                                  HookErr(call.before))>>
           /\ Count("base") = 0
           /\ Count("after") = 0
           /\ ret = ZeroResult(call.op, HookErr(call.before))

\* A vetoed Read whose 'after' hook was set (and stayed silent).
C1_Witness ==
    /\ ConnCall({"Read"})
    /\ Vetoed
    /\ call.after # NoHook
    /\ ret = [n |-> 0, err |-> ErrHook]

\* C2: when BeforeAccept / BeforeClose of the listener decorator is set
\* and returns an error, the wrapped listener is not called, the paired
\* 'after' hook is not called, and the call returns exactly that error
\* (Accept with a nil connection).
C2_BeforeErrorShortCircuitsListener ==
    (ListenerCall({"Accept", "Close"}) /\ Vetoed)
        => /\ events = <<EvBefore(call.op, TheListener, NoArg,
                                  HookErr(call.before))>>
           /\ Count("base") = 0
           /\ Count("after") = 0
           /\ ret = IF call.op = "Accept"
                    THEN [conn |-> 0, err |-> HookErr(call.before)]
                    ELSE [err |-> HookErr(call.before)]

\* A vetoed Accept on a listener whose AfterAccept was set.
C2_Witness ==
    /\ ListenerCall({"Accept"})
    /\ Vetoed
    /\ call.after # NoHook
    /\ ret = [conn |-> 0, err |-> ErrHook]
    /\ conns = <<>>

\* C3: Accept and Close of the listener decorator with a 'before' hook
\* that returns no error run the 'before' hook, then the wrapped
\* listener's method, then the 'after' hook (if set), and only then return;
\* the 'after' hook and the caller get the error the wrapped method
\* produced.
C3_ListenerOrder ==
    (ListenerCall({"Accept", "Close"}) /\ call.before # NoHook /\ ~Vetoed)
        => /\ Len(events) = IF call.after # NoHook THEN 3 ELSE 2
           /\ events[1] = EvBefore(call.op, TheListener, NoArg, NoErr)
           /\ events[2].kind = "base"
           /\ events[2].op = call.op
           /\ ret.err = events[2].res.err
           /\ call.after # NoHook
                => /\ events[3].kind = "after"
                   /\ events[3].op = call.op
                   /\ events[3].res.err = events[2].res.err

\* A Close that ran all three steps and passed on the listener's error.
C3_Witness ==
    /\ ListenerCall({"Close"})
    /\ call.before = "BOk"
    /\ call.after # NoHook
    /\ Len(events) = 3
    /\ ret = [err |-> ErrBase]

\* How many 'before' events a call that was not vetoed records first.
Pre == IF call.before # NoHook THEN 1 ELSE 0

\* C4: when no 'before' hook is set or it returns no error, Read, Write,
\* Close, SetDeadline, SetReadDeadline and SetWriteDeadline call the
\* wrapped connection exactly once and then the 'after' hook (if set)
\* exactly once, with the call's arguments and the wrapped call's results,
\* before the results (the wrapped call's) go back to the caller.
C4_CallThenAfterConn ==
    (ConnCall(StreamPairOps) /\ ~Vetoed)
        => /\ Count("base") = 1
           /\ Count("after") = IF call.after # NoHook THEN 1 ELSE 0
           /\ Len(events) = Pre + 1 + Count("after")
           /\ events[Pre + 1] = EvBase(call.op, call.obj, call.arg, ret)
           /\ call.after # NoHook
                => events[Pre + 2] = EvAfter(call.op, call.obj, call.arg, ret)

\* A Write that went through with both hooks set and a failing connection.
C4_Witness ==
    /\ ConnCall({"Write"})
    /\ call.before = "BOk"
    /\ call.after # NoHook
    /\ Len(events) = 3
    /\ ret = [n |-> MaxLen, err |-> ErrBase]

\* The latest call was Accept on the listener decorator, of either
\* revision, and its 'before' hook was unset (the callback revision has
\* none).
AcceptNoBefore ==
    call.obj = TheListener /\ call.op = "Accept" /\ call.before = NoHook

\* C5: when the wrapped listener's Accept fails with error E and
\* BeforeAccept is unset, Accept calls AfterAccept (if set) exactly once
\* with E and returns a connection decorator that wraps the nil
\* connection, together with E.
C5_AcceptErrorPassesThrough ==
    (AcceptNoBefore /\ Len(events) > 0 /\ events[1].kind = "base"
                    /\ events[1].res.err # NoErr)
        => /\ ret.err = events[1].res.err
           /\ ret.conn \in DOMAIN conns
           /\ IF rev = "hook"
              THEN conns[ret.conn].Base = NilConn
              ELSE conns[ret.conn].NetConn = NilConn
           /\ Count("after") = IF call.after # NoHook THEN 1 ELSE 0
           /\ call.after # NoHook
                => /\ Len(events) = 2
                   /\ events[2] = EvAfter("Accept", TheListener, NoArg,
                                          [conn |-> ret.conn,
                                           err |-> events[1].res.err])

\* A failed Accept of the hook revision with AfterAccept set.
C5_Witness ==
    /\ rev = "hook"
    /\ AcceptNoBefore
    /\ call.after # NoHook
    /\ ret = [conn |-> 1, err |-> ErrBase]
    /\ conns[1].Base = NilConn
    /\ Len(events) = 2

C7_CallbacksPassedOn ==
    [][(rev = "callback" /\ Len(conns') > Len(conns))
         => /\ Len(conns') = Len(conns) + 1
            /\ \A f \in PassedCallbacks :
                 conns'[Len(conns')][f] = l[ConnField(f)]]_vars

\* Accept has just made a connection that carries the listener's read
\* callback.
C7_Witness ==
    /\ rev = "callback"
    /\ call.op = "Accept"
    /\ Len(conns) = 1
    /\ l.ConnReadCallback \in Callbacks
    /\ conns[1].ReadCallback = l.ConnReadCallback

\* The function-valued field observed by the latest call was set.
AfterSet == call.after # NoHook

\* C8: Listener.Addr, Conn.LocalAddr and Conn.RemoteAddr (both revisions)
\* always query the wrapped object exactly once, hand the address it
\* returned to the 'after' hook (if set) exactly once, and return that
\* address; there is no 'before' hook.
C8_AddressQueries ==
    (call.op \in {"Addr", "LocalAddr", "RemoteAddr"})
        => /\ ret.addr \in Addrs
           /\ Count("before") = 0
           /\ Count("base") = 1
           /\ Count("after") = IF AfterSet THEN 1 ELSE 0
           /\ Len(events) = 1 + Count("after")
           /\ events[1] = EvBase(call.op, call.obj, NoArg, ret)
           /\ AfterSet
                => events[2] = EvAfter(call.op, call.obj, NoArg, ret)

\* RemoteAddr on a connection decorator (hook revision) with its 'after'
\* hook set.
C8_Witness ==
    /\ ConnCall({"RemoteAddr"})
    /\ AfterSet
    /\ ret = [addr |-> "a2"]
    /\ Len(events) = 2

\* The latest call was ReadFrom or WriteTo on a connection decorator whose
\* wrapped connection is no net.PacketConn.
NotPacketCall ==
    /\ ConnCall({"ReadFrom", "WriteTo"})
    /\ ~conns[call.obj].Base.packet

\* C9: ReadFrom and WriteTo on a decorator whose wrapped connection lacks
\* packet capability return ErrNotPacketConn with 0 bytes (and a nil
\* address), whatever the arguments and hooks, without calling the
\* 'before' hook or the wrapped connection.
C9_NotPacketConn ==
    NotPacketCall
        => /\ ret = ZeroResult(call.op, ErrNotPacketConn)
           /\ Count("before") = 0
           /\ Count("base") = 0

\* WriteTo on a stream-only connection whose BeforeWriteTo would have
\* vetoed the call.
C9_Witness ==
    /\ NotPacketCall
    /\ call.op = "WriteTo"
    /\ call.before = "BFail"
    /\ conns[call.obj].Base # NilConn
    /\ ret = [n |-> 0, err |-> ErrNotPacketConn]

\* C10: on a connection without packet capability, ReadFrom and WriteTo
\* call their 'after' hook (if set) exactly once, with zero bytes (nil
\* address) and ErrNotPacketConn, before returning.
C10_AfterHookSeesNotPacketConn ==
    (NotPacketCall /\ AfterSet)
        => /\ Count("after") = 1
           /\ events[Len(events)]
                = EvAfter(call.op, call.obj, call.arg,
                          ZeroResult(call.op, ErrNotPacketConn))

\* The latest call was ReadFrom or WriteTo on a connection decorator whose
\* wrapped connection is a net.PacketConn.
PacketCall ==
    /\ ConnCall({"ReadFrom", "WriteTo"})
    /\ conns[call.obj].Base.packet

\* C11: on a decorator whose wrapped connection has packet capability,
\* ReadFrom and WriteTo follow the hook pattern: a 'before' hook that
\* returns an error makes the call return that error with zero-valued
\* other results, without the wrapped packet operation or the 'after'
\* hook being invoked; otherwise the wrapped packet operation is invoked
\* exactly once, then the 'after' hook (if set) exactly once with the
\* call's arguments and the wrapped operation's results, and those
\* results are returned.
C11_PacketConnPattern ==
    PacketCall
        => IF Vetoed
           THEN /\ events = <<EvBefore(call.op, call.obj, call.arg,
                                       HookErr(call.before))>>
                /\ ret = ZeroResult(call.op, HookErr(call.before))
           ELSE /\ Count("base") = 1
                /\ Count("after") = IF call.after # NoHook THEN 1 ELSE 0
                /\ Len(events) = Pre + 1 + Count("after")
                /\ Pre = 1 => events[1] = EvBefore(call.op, call.obj,
                                                   call.arg, NoErr)
                /\ events[Pre + 1] = EvBase(call.op, call.obj, call.arg, ret)
                /\ call.after # NoHook
                     => events[Pre + 2]
                          = EvAfter(call.op, call.obj, call.arg, ret)

\* A ReadFrom on a packet connection that ran 'before' hook, wrapped
\* ReadFrom and 'after' hook and handed back bytes, address and error.
C11_Witness ==
    /\ PacketCall
    /\ call.op = "ReadFrom"
    /\ call.before = "BOk"
    /\ call.after # NoHook
    /\ Len(events) = 3
    /\ ret.n = MaxLen
    /\ ret.addr # NilAddr

\* A ReadFrom on a packet connection stopped by its 'before' hook.
C11_VetoWitness ==
    /\ PacketCall
    /\ call.op = "ReadFrom"
    /\ Vetoed
    /\ call.after # NoHook

\* The latest call was made on a decorator, of either revision, whose
\* hooks (callbacks) for that method were unset.
Unhooked ==
    call.op # "none" /\ call.before = NoHook /\ call.after = NoHook

\* The object the events of a call on decorator o name: the decorator,
\* or for a connection of the callback revision the wrapped connection.
Target(o) ==
    IF rev = "callback" /\ o # TheListener THEN conns[o].NetConn.id ELSE o

\* The object a connection decorator wraps.
Wrapped(c) == IF rev = "hook" THEN conns[c].Base ELSE conns[c].NetConn

\* C13: a decorator with its hooks unset behaves as the object it wraps:
\* a call makes exactly the same call, with the same arguments, on the
\* wrapped object and nothing else, and returns that call's results
\* (Accept returns a decorator around the connection the wrapped listener
\* returned, with the listener's error; ReadFrom and WriteTo on a
\* connection without packet capability are excepted).  Stated for the
\* connection decorator of conn.go and the listener decorator of
\* listener.go.
C13_UnhookedIsTransparent ==
    (Unhooked /\ ~NotPacketCall /\ ~ListenerCall({"Accept", "Close", "Addr"}))
        => /\ Len(events) = 1
           /\ events[1].kind = "base"
           /\ events[1].op = call.op
           /\ events[1].obj = Target(call.obj)
           /\ events[1].arg = call.arg
           /\ IF call.op = "Accept"
              THEN /\ ret.err = events[1].res.err
                   /\ ret.conn \in DOMAIN conns
                   /\ Wrapped(ret.conn) = events[1].res.conn
              ELSE ret = events[1].res

\* A Read on a decorator none of whose hook fields is set, handing back
\* the wrapped connection's byte count and error.
C13_Witness ==
    /\ ConnCall({"Read"})
    /\ Unhooked
    /\ \A f \in ConnHookFields : conns[call.obj][f] = NoHook
    /\ events = <<EvBase("Read", call.obj, call.arg, ret)>>
    /\ ret = [n |-> MaxLen, err |-> ErrBase]

\* Connection methods that return an error.
ConnErrOps == StreamPairOps \cup {"ReadFrom", "WriteTo"}

\* The events of one kind the latest call recorded, by position.
EventsOf(kind) == {i \in DOMAIN events : events[i].kind = kind}

\* C15: the error a connection method returns has one of three origins:
\* the error its 'before' hook returned in that call (the wrapped
\* connection then not being called), the error the wrapped operation
\* returned, unchanged and the same the 'after' hook was passed, or
\* ErrNotPacketConn, the latter only from ReadFrom and WriteTo on a
\* connection without packet capability.  An error of the wrapped
\* operation never becomes nil, and no error is returned when neither the
\* 'before' hook nor the wrapped operation returned one.  The listener
\* decorator of listener.go, which has no 'before' hooks, returns the
\* wrapped listener's error.
C15_ErrorOrigins ==
    /\ (rev = "callback" /\ call.op \in {"Accept", "Close"})
        => /\ Count("base") = 1
           /\ \A i \in EventsOf("base") : ret.err = events[i].res.err
           /\ \A i \in EventsOf("after") : events[i].res.err = ret.err
    /\ ConnCall(ConnErrOps)
        => /\ Count("base") \in {0, 1}
           /\ Count("base") = 1
                => /\ \A i \in EventsOf("base") : ret.err = events[i].res.err
                   /\ \A i \in EventsOf("after") : events[i].res.err = ret.err
                   /\ \A i \in EventsOf("before") : events[i].res.err = NoErr
           /\ (Count("base") = 0 /\ Count("before") = 1)
                => /\ ret.err = events[1].res.err
                   /\ ret.err = HookErr(call.before)
                   /\ ret.err # NoErr
           /\ (Count("base") = 0 /\ Count("before") = 0)
                => /\ NotPacketCall
                   /\ ret.err = ErrNotPacketConn
           /\ ~NotPacketCall => Len(events) > 0

\* A SetDeadline whose wrapped connection failed: 'after' hook and caller
\* both got that error.
C15_Witness ==
    /\ ConnCall({"SetDeadline"})
    /\ call.before = "BOk"
    /\ Len(events) = 3
    /\ events[2].res.err = ErrBase
    /\ events[3].res.err = ErrBase
    /\ ret = [err |-> ErrBase]

\* Every method of the connection decorator.
ConnOps == ConnPairOps \cup ConnAfterOps

\* C14: an 'after' hook cannot alter what a call returns: once the wrapped
\* operation has returned, the decorated call returns exactly its results,
\* whether the 'after' hook is set or unset and whatever it does,
\* assigning hook fields of the decorator included.
C14_AfterHookCannotAlterResult ==
    (ConnCall(ConnOps) /\ Count("base") > 0)
        => /\ Count("base") = 1
           /\ \A i \in EventsOf("base") : ret = events[i].res
           /\ \A i \in EventsOf("after") : events[i].res = ret

\* A Write whose 'after' hook ran and cleared its own field, on a
\* connection that wrote all bytes and failed.
C14_Witness ==
    /\ ConnCall({"Write"})
    /\ call.after = "AOnce"
    /\ Count("after") = 1
    /\ conns[call.obj].AfterWrite = NoHook
    /\ ret = [n |-> MaxLen, err |-> ErrBase]

\* C18: a method call does not change the decorator: across a call, be it
\* a success, a failure of the wrapped connection or a call stopped by
\* its 'before' hook, the wrapped-connection reference and every hook
\* field keep their values, unless the caller assigns them (between
\* calls) or a hook or mock handler that ran in the call assigned them;
\* a call stopped by its 'before' hook leaves every field as it was.
C18_CallsLeaveDecoratorAlone ==
    [][ /\ l' = l
        /\ Len(conns') = Len(conns)
        /\ \A c \in DOMAIN conns :
             /\ conns'[c].Base = conns[c].Base
             /\ \A f \in ConnHookFields :
                  conns'[c][f] # conns[c][f]
                     => \/ setups' # setups
                        \/ /\ c = call'.obj
                           /\ f = AfterField(call'.op)
                           /\ \E i \in DOMAIN events' :
                                \/ /\ events'[i].kind = "before"
                                   /\ call'.before \in DynBefore
                                \/ /\ events'[i].kind = "base"
                                   /\ "during" \in DOMAIN conns[c].Base
                                \/ /\ events'[i].kind = "after"
                                   /\ conns[c][f] = "AOnce"
      ]_vars

\* A Close stopped by its 'before' hook, after which both close hooks are
\* still in place.
C18_Witness ==
    /\ ConnCall({"Close"})
    /\ Vetoed
    /\ events = <<EvBefore("Close", call.obj, NoArg, ErrHook)>>
    /\ conns[call.obj].BeforeClose = "BFail"
    /\ conns[call.obj].AfterClose = "ARec"

\* The 'after' hook field of the latest call's method at the moment the
\* wrapped call returned: what the call began with, unless the 'before'
\* hook or the wrapped connection's handler assigned the field.
AfterAtReturn ==
    LET base == conns[call.obj].Base
    IN IF "during" \in DOMAIN base /\ base.handler = call.op
       THEN IF base.during = "arm" THEN "ARec" ELSE NoHook
       ELSE IF call.before = "BArm" THEN "ARec"
       ELSE IF call.before = "BDisarm" THEN NoHook
       ELSE call.after

\* C19: the 'after' hook field is read once the wrapped call has
\* returned, not when the call starts: a connection method that called
\* the wrapped connection fires an 'after' hook exactly when the field is
\* set at that moment, so a hook installed (cleared) by the same call's
\* 'before' hook or during the wrapped call fires (does not fire) for
\* that call; a hook that fired and clears itself is then gone.
C19_AfterHookReadLate ==
    (ConnCall(ConnOps) /\ Count("base") = 1)
        => /\ Count("after") = IF AfterAtReturn # NoHook THEN 1 ELSE 0
           /\ Count("after") = 1
                => /\ events[Len(events)]
                        = EvAfter(call.op, call.obj, call.arg, ret)
                   /\ AfterAtReturn = "AOnce"
                        => conns[call.obj][AfterField(call.op)] = NoHook

\* A Read that began without an 'after' hook and fired the one its
\* 'before' hook installed.
C19_Witness ==
    /\ ConnCall({"Read"})
    /\ call.before = "BArm"
    /\ call.after = NoHook
    /\ Len(events) = 3
    /\ events[3] = EvAfter("Read", call.obj, call.arg, ret)
    /\ conns[call.obj].AfterRead = "ARec"

\* A Read that began with an 'after' hook its 'before' hook cleared: the
\* hook did not fire.
C19_ClearedWitness ==
    /\ ConnCall({"Read"})
    /\ call.before = "BDisarm"
    /\ call.after = "ARec"
    /\ Count("base") = 1
    /\ Count("after") = 0

\* A Read that fired the 'after' hook installed while the wrapped Read ran.
C19_DuringWitness ==
    /\ ConnCall({"Read"})
    /\ call.before = NoHook
    /\ call.after = NoHook
    /\ "during" \in DOMAIN conns[call.obj].Base
    /\ Count("after") = 1

\* C12: Accept hands its accept hook the decorator it then returns, and
\* the hook has run when Accept returns: the 'after' hook for Read that
\* the hook installs is on every decorator Accept has returned, from the
\* first Read on, and the byte counter it adds to holds, for a connection
\* accepted without error, the sum of the byte counts the Reads on the
\* decorator returned (Reads stopped by a 'before' hook return 0 and add
\* nothing).
C12_AcceptHookCountsReads ==
    /\ (ListenerCall({"Accept"}) /\ call.after # NoHook /\ ~Vetoed)
        => /\ events[Len(events)].kind = "after"
           /\ events[Len(events)].res.conn = ret.conn
           /\ ret.conn \in DOMAIN conns
    /\ \A c \in DOMAIN conns :
         /\ conns[c].AfterRead = "onRead"
         /\ conns[c].Base # NilConn
              => /\ ConnKey(conns[c].Base) \in DOMAIN data
                 /\ data[ConnKey(conns[c].Base)].bytesRead = hist.read[c]

\* Three Reads on one decorator, the last of them returning bytes, have
\* been counted.
C12_Witness ==
    /\ ConnCall({"Read"})
    /\ hist.reads[call.obj] = 3
    /\ ret.n = MaxLen
    /\ hist.read[call.obj] >= 2
    /\ data[ConnKey(conns[call.obj].Base)].bytesRead = hist.read[call.obj]

\* Close had been called on the receiver of the latest call before that
\* call began (a Close call counts itself).
ClosedBefore ==
    /\ call.op # "none"
    /\ hist.closes[call.obj] >= IF call.op = "Close" THEN 2 ELSE 1

\* C16: Close does not disable a decorator.  A call made after Close has
\* been called on the decorator, a second Close included, still runs the
\* 'before' hook (if set), then, unless that returned an error, the
\* wrapped object's method once, then the 'after' hook (if set), and
\* returns what the wrapped object returned (Accept: a decorator around
\* the connection it returned).  ReadFrom and WriteTo on a connection
\* without packet capability keep returning ErrNotPacketConn.
C16_CloseDoesNotDisable ==
    ClosedBefore
        => IF NotPacketCall
           THEN ret = ZeroResult(call.op, ErrNotPacketConn)
           ELSE IF Vetoed
           THEN /\ events = <<EvBefore(call.op, call.obj, call.arg,
                                       HookErr(call.before))>>
                /\ ret = ZeroResult(call.op, HookErr(call.before))
           ELSE /\ Count("before") = Pre
                /\ Count("base") = 1
                /\ Count("after") = IF call.after # NoHook THEN 1 ELSE 0
                /\ Len(events) = Pre + 1 + Count("after")
                /\ events[Pre + 1].kind = "base"
                /\ events[Pre + 1].op = call.op
                /\ events[Pre + 1].obj = call.obj
                /\ IF call.op = "Accept"
                   THEN /\ ret.err = events[Pre + 1].res.err
                        /\ Wrapped(ret.conn) = events[Pre + 1].res.conn
                   ELSE ret = events[Pre + 1].res
                /\ call.after # NoHook
                     => /\ events[Len(events)].kind = "after"
                        /\ events[Len(events)].res = ret

\* A second Close on a connection decorator that ran both hooks around
\* the wrapped connection's Close.
C16_Witness ==
    /\ ConnCall({"Close"})
    /\ hist.closes[call.obj] = 2
    /\ call.before = "BOk"
    /\ call.after # NoHook
    /\ Len(events) = 3
    /\ events[2] = EvBase("Close", call.obj, NoArg, ret)

\* A Read after Close that went through to the wrapped connection.
C16_ReadWitness ==
    /\ ConnCall({"Read"})
    /\ hist.closes[call.obj] = MaxCloses
    /\ call.after # NoHook
    /\ Len(events) = 2
    /\ ret.n = MaxLen

\* Thread t's Accept has built its decorator.
HasConn(t) == frames[t].pc \in {"return", "serving"}

\* What C17 says of one state.
C17_Independent ==
    /\ \A t \in Threads :
         HasConn(t)
            => /\ frames[t].conn \in DOMAIN conns
               /\ conns[frames[t].conn].NetConn = hist.got[t]
    /\ \A t, u \in Threads :
         (t # u /\ HasConn(t) /\ HasConn(u))
            => /\ frames[t].conn # frames[u].conn
               /\ hist.got[t] # NilConn => hist.got[t] # hist.got[u]
    /\ (call.obj # TheListener /\ call.op \in {"LocalAddr", "RemoteAddr"})
         => \A i \in DOMAIN events :
              events[i].obj = conns[call.obj].NetConn.id

\* C17: the decorators that different Accept calls on one listener
\* decorator return, the calls being interleaved between threads, are
\* independent: each wraps the connection the wrapped listener handed to
\* its own Accept call; a step changes the fields of at most one
\* decorator, and then neither another decorator's nor the listener's;
\* and a method called on one decorator calls, and hands its callback,
\* the connection that decorator wraps.
C17_DecoratorsIndependent ==
    [][ /\ C17_Independent'
        /\ Len(conns') >= Len(conns)
        /\ \A c \in DOMAIN conns :
             conns'[c] # conns[c]
                => /\ l' = l
                   /\ \A c2 \in DOMAIN conns \ {c} : conns'[c2] = conns[c2]
      ]_vars

\* Two threads whose Accept calls overlapped, so that the first decorator
\* wraps the second connection handed out; one decorator has been given a
\* callback, the other has none, and LocalAddr on the former ran it.
C17_Witness ==
    /\ \A t \in Threads : frames[t].pc = "serving"
    /\ conns[1].NetConn.id = 2
    /\ conns[2].NetConn.id = 1
    /\ conns[1].LocalAddrCallback = "cb2"
    /\ conns[2].LocalAddrCallback = NoHook
    /\ call.obj = 1
    /\ call.op = "LocalAddr"
    /\ Len(events) = 2
    /\ events[2].obj = 2

\* C20: a decorated call returns, provided the hooks and the wrapped
\* operation it invokes return: the decorator itself neither waits nor
\* loops, so a call in progress always comes back to its caller.
C20_CallsReturn == (frames.pc # "idle") ~> (frames.pc = "idle")

\* A Read that went through 'before' hook, wrapped Read and 'after' hook
\* has returned.
C20_Witness ==
    /\ frames = NoFrame
    /\ ConnCall({"Read"})
    /\ Len(events) = 3
    /\ ret = [n |-> MaxLen, err |-> ErrBase]

\* The key under which the tracker of the running revision keeps the
\* entry of decorator c: the connection it wraps.
EntryKey(c) ==
    ConnKey(IF rev = "hook" THEN conns[c].Base ELSE conns[c].NetConn)

\* C21: in the example stats tracker a connection accepted without error
\* has an entry in the tracker's map from its accept hook until its close
\* hook runs; once the close hook has run for it the map holds no entry for
\* it; and after every accepted connection has been closed the map is
\* empty.
C21_TrackerEntries ==
    /\ \A c \in hist.accepted \ hist.closed : EntryKey(c) \in DOMAIN data
    /\ \A c \in hist.closed : EntryKey(c) \notin DOMAIN data
    /\ hist.accepted \subseteq hist.closed => data = NoData

\* What the callback revision's tracker does keep: the same statement, for
\* the example at conn.go 450-575.
C21_CallbackTrackerEntries == rev = "callback" => C21_TrackerEntries

\* What of the statement the hook revision's tracker keeps: an accepted
\* connection has an entry, also after its close hook ran.
C21_HookTrackerKeepsEntries ==
    rev = "hook" => \A c \in hist.accepted : EntryKey(c) \in DOMAIN data

\* Every accepted connection was closed, its close hook having run.
C21_AllClosedWitness ==
    /\ hist.accepted # {}
    /\ hist.accepted \subseteq hist.closed

\* C22: in the example stats tracker, with connections accepted, read,
\* written and closed concurrently on different goroutines, no two hooks
\* access the tracker's map at the same time when at least one of them is
\* inserting or deleting.
C22_NoConcurrentMapAccess == \A t \in Goroutines : ~Racing(t)

\* The reason C22 gives: every lookup, insert and delete on the map happens
\* while the tracker's mutex dataGuard is held.
C22_MapAccessUnderDataGuard ==
    \A t \in Goroutines :
        frames.pc[t] \in MapAccess => frames.dataGuard = {t}

\* What the code does keep: the insert happens with dataGuard held, and no
\* two goroutines insert at the same time.
C22_InsertUnderDataGuard ==
    \A t \in Goroutines :
        frames.pc[t] = "onAccept:insert" => frames.dataGuard = {t}

\* A delete while the acceptor inserts, the two holding different mutexes.
C22_DeleteDuringInsertWitness ==
    /\ frames.pc[Acceptor] = "onAccept:insert"
    /\ \E t \in 1..MaxSetup :
         /\ frames.pc[t] = "onClose:delete"
         /\ ConnKey(conns[t].Base) \in frames.guard
    /\ frames.dataGuard = {Acceptor}

\* A racing access ended the program.
C22_FatalWitness == frames.fatal
====
